---------------------------- MODULE Spec2Model ----------------------------
(***************************************************************************)
(* Session engine (client) and device facade of onkyoctl.                  *)
(*                                                                         *)
(* Goroutines of the program and how they appear here:                     *)
(*   - the engine loop (client.loop) with its position enginePc;           *)
(*   - one read task per connection (client.readLoop), readerPc[c];        *)
(*   - one goroutine per connection-state change running the callback      *)
(*     (client.changeState -> Device.connectionChanged), the bag cbPending;*)
(*   - the reconnect goroutines of Device.connectionChanged, timers;       *)
(*   - application goroutines calling Device.Start, Device.Stop,           *)
(*     client.Connect/Disconnect, and one goroutine that makes the         *)
(*     SendISCP calls one after the other (callPc[k] for its k-th call).   *)
(* The receiver (server side of the TCP connection) is the environment:    *)
(* it accepts or refuses a dial, sends frames and closes connections.      *)
(*                                                                         *)
(* Unbuffered channels (done, wantConnect, wantDisconnect) are rendezvous: *)
(* one action moves the sender past its send and the loop into the handler.*)
(* Lifecycle modelled: NewDevice, at most one Start, at most one Stop; in   *)
(* SpecLifecycle further client.Start calls and several Stop calls.        *)
(***************************************************************************)
EXTENDS Integers, Sequences, FiniteSets, TLC

\* ------------------------------------------------------------------ bounds
\* number of dial attempts made by the engine (also bounds connection ids)
MaxDials == 2
\* number of SendISCP calls the application makes
MaxSends == 3
\* number of frames the receiver sends
MaxFrames == 2
\* capacity of the send channel as modelled (32 in newClient, scaled down)
MaxSendQueue == 2
\* capacity of the received channel as modelled (32 in newClient, scaled down)
MaxRecvQueue == 1

\* number of further client.Start calls on a client that has been started
MaxRestarts == 1
\* number of Stop calls the application makes
MaxStops == 2

\* ------------------------------------------------------------- value sets
Disconnected == "Disconnected"
Connecting == "Connecting"
Connected == "Connected"
Disconnecting == "Disconnecting"
ConnectionState == {Disconnected, Connecting, Connected, Disconnecting}

ErrNotConnected == "ErrNotConnected"
ErrTimeout == "ErrTimeout"
\* the error returned by conn.Write
ErrWrite == "ErrWrite"
\* a nil error
Nil == "nil"
\* no value yet (empty reply channel, call not returned)
None == "none"

\* c.conn == nil
NoConn == 0
Conns == 1..MaxDials
Calls == 1..MaxSends
\* timeout arguments of SendISCP/Send: zero and a positive duration
Timeouts == {0, 1}

VARIABLES
    cfg,          \* Device: autoConnect, allowReconnect; OnConnected/OnDisconnected set
    enginePc,     \* position of client.loop
    stopping,     \* the loop took <-c.done and is inside doDone
    stopReturned, \* Device.Stop has returned to the application
    starterPc,    \* position of the goroutine that called Device.Start
    state,        \* c.state
    conn,         \* c.conn
    lastChange,   \* <<old, new>> of the most recent changeState call
    dials,        \* dial attempts so far
    connStatus,   \* per socket: none / open / peerClosed / closed (locally)
    readerPc,     \* per connection: position of its readLoop
    sockIn,       \* per socket: frames <<socket, number>> sent to it, not yet read
    framesSent,   \* number of frames the receiver has sent
    received,     \* channel c.received
    handled,      \* commands passed to c.handler, in invocation order
    send,         \* channel c.send (task ids)
    reply,        \* per task: content of its Reply channel, while its caller waits
    written,      \* tasks whose frame conn.Write has put on a socket, in order
    callNo,       \* number of SendISCP calls made so far; the latest is "the call"
    callPc,       \* position of the call
    callTimeout,  \* timeout argument of the call
    callResult,   \* error returned by the call
    callEntry,    \* what the device was like when the call entered SendISCP
    callCheck,    \* c.state seen by the call's isState test in client.Send
    cbPending,    \* bag of connection callback goroutines not yet run, by state
    timers,       \* reconnect goroutines sleeping or blocked in client.Connect
    intBits,      \* size of Go's int in the build: 32 or 64 bits
    codecIn,      \* argument of the call of a frame codec function
    codecOp,      \* the codec function called, "none" before the call
    codecOut,     \* what the call returned
    sent,         \* readLoop on bytes: the commands of the frames put on the connection
    wire,         \* segments of bytes on the connection that no read has taken yet
    rd,           \* bytes the bufio.Reader r holds
    buf,          \* the header buffer of readLoop
    payloadSize,  \* the payload size of the header read last
    loopPc,       \* position of readLoop: none / header / payload / returned / panic
    delivered,    \* commands readLoop has sent to c.received, in order
    loops,        \* loop goroutines started by further Start calls, in their select
    stopWaiting   \* Stop calls blocked in c.done <- true

\* the variables of the client and the Device
clientVars == <<cfg, enginePc, stopping, stopReturned, starterPc, state, conn,
                lastChange, dials, connStatus, readerPc, sockIn, framesSent,
                received, handled, send, reply, written, callNo, callPc,
                callTimeout, callResult, callEntry, callCheck, cbPending, timers,
                loops, stopWaiting>>

\* the variables of a call of a frame codec function (message.go)
codecVars == <<intBits, codecIn, codecOp, codecOut>>

\* the variables of readLoop on the bytes of a connection
streamVars == <<sent, wire, rd, buf, payloadSize, loopPc, delivered>>

vars == <<clientVars, codecVars, streamVars>>

engineVars == <<enginePc, stopping>>
stateVars == <<state, conn, lastChange, cbPending>>
sockVars == <<connStatus, sockIn, framesSent>>
recvVars == <<received, handled>>
sendVars == <<send, reply, written>>
callVars == <<callNo, callPc, callTimeout, callResult, callEntry, callCheck>>
lifeVars == <<loops, stopWaiting>>

\* ------------------------------------------------------------------- Init
\* the Device configurations: the Config fields AutoConnect and
\* AllowReconnect, and whether the application has set the OnConnected and
\* the OnDisconnected callback
Configs ==
    [autoConnect : BOOLEAN, allowReconnect : BOOLEAN,
     onConnect : BOOLEAN, onDisconnect : BOOLEAN]

\* newClient + NewDevice for a configuration out of cs: state Disconnected,
\* no socket, empty channels, loop not started
InitClient(cs) ==
    /\ cfg \in cs
    /\ enginePc = "notstarted"
    /\ stopping = FALSE
    /\ stopReturned = FALSE
    /\ starterPc = "none"
    /\ state = Disconnected
    /\ conn = NoConn
    /\ lastChange = <<>>
    /\ dials = 0
    /\ connStatus = [c \in Conns |-> "none"]
    /\ readerPc = [c \in Conns |-> "none"]
    /\ sockIn = [c \in Conns |-> <<>>]
    /\ framesSent = 0
    /\ received = <<>>
    /\ handled = <<>>
    /\ send = <<>>
    /\ reply = [k \in Calls |-> None]
    /\ written = <<>>
    /\ callNo = 0
    /\ callPc = "idle"
    /\ callTimeout = 0
    /\ callResult = None
    /\ callEntry = None
    /\ callCheck = None
    /\ cbPending = [s \in ConnectionState |-> 0]
    /\ timers = 0
    /\ loops = 0
    /\ stopWaiting = 0

\* no readLoop runs on the bytes of a connection
InitNoReader ==
    /\ sent = <<>>
    /\ wire = <<>>
    /\ rd = <<>>
    /\ buf = <<>>
    /\ payloadSize = <<0, 0>>
    /\ loopPc = "none"
    /\ delivered = <<>>

\* the state after construction; no codec function is being called on its
\* own
InitWith(cs) ==
    /\ InitClient(cs)
    /\ intBits = 64
    /\ codecIn = <<>>
    /\ codecOp = "none"
    /\ codecOut = <<>>
    /\ InitNoReader

Init == InitWith(Configs)

\* ------------------------------------------------------ client primitives
\* client.isState: one read of c.state under connLock
isState(states) == state \in states

\* Device.connectionChanged(s) does something besides logging: it calls
\* onConnect for Connected and onDisconnect for Disconnected, when set
callbackActs(s) ==
    \/ s = Connected /\ cfg.onConnect
    \/ s = Disconnected /\ cfg.onDisconnect

\* client.changeState: sets c.state, replaces c.conn unless the argument is
\* nil, and starts a goroutine that runs connectionCB(s) (NewDevice always
\* installs Device.connectionChanged as connectionCB). A goroutine whose
\* connectionChanged(s) only logs is not kept in cbPending.
changeState(s, cn) ==
    /\ state' = s
    /\ conn' = IF cn # NoConn THEN cn ELSE conn
    /\ lastChange' = <<state, s>>
    /\ cbPending' = IF callbackActs(s)
                       THEN [cbPending EXCEPT ![s] = @ + 1]
                       ELSE cbPending


\* the device as an application finds it when it makes a call: not started,
\* stopped (Stop has returned), or started and then disconnected or not
deviceStatus ==
    IF enginePc = "notstarted" THEN "notstarted"
    ELSE IF stopReturned THEN "stopped"
    ELSE IF state = Disconnected THEN "disconnected" ELSE "connected"

\* the loop is blocked in its select, ready to take one event
inSelect == enginePc = "select"

\* ------------------------------------------------------- engine: doConnect
\* (mutant) doConnect without the isState test
doConnectUntested ==
    /\ enginePc' = "connect"
    /\ UNCHANGED stopping

\* first half of doConnect, run by the loop right after it took <-c.wantConnect:
\* the isState test; a no-op when already Connected or Connecting
doConnect ==
    /\ enginePc' = IF isState({Connected, Connecting}) THEN "select" ELSE "connect"
    /\ UNCHANGED stopping

\* the senders that can be blocked in c.wantConnect <- true
\* Device.Start (after client.Start)
StartConnect ==
    /\ inSelect
    /\ starterPc = "connect"
    /\ isState({Connected, Connecting}) \/ dials < MaxDials
    /\ starterPc' = "done"
    /\ doConnect
    /\ UNCHANGED <<codecVars, streamVars, lifeVars, cfg, stopReturned, stateVars, dials, readerPc, sockVars,
                   recvVars, sendVars, callVars, timers>>

\* Device.SendISCP with autoConnect
CallConnect ==
    /\ inSelect
    /\ callPc = "connect"
    /\ isState({Connected, Connecting}) \/ dials < MaxDials
    /\ callPc' = "wait"
    /\ doConnect
    /\ UNCHANGED <<codecVars, streamVars, lifeVars, cfg, stopReturned, starterPc, stateVars, dials, readerPc,
                   sockVars, recvVars, sendVars, callNo, callTimeout,
                   callResult, callEntry, callCheck, timers>>

\* the reconnect goroutine of Device.connectionChanged, after its sleep
TimerConnect ==
    /\ inSelect
    /\ timers > 0
    /\ isState({Connected, Connecting}) \/ dials < MaxDials
    /\ timers' = timers - 1
    /\ doConnect
    /\ UNCHANGED <<codecVars, streamVars, lifeVars, cfg, stopReturned, starterPc, stateVars, dials, readerPc,
                   sockVars, recvVars, sendVars, callVars>>

\* client.Connect called directly
ClientConnect ==
    /\ inSelect
    /\ ~stopReturned
    /\ isState({Connected, Connecting}) \/ dials < MaxDials
    /\ doConnect
    /\ UNCHANGED <<codecVars, streamVars, lifeVars, cfg, stopReturned, starterPc, stateVars, dials, readerPc,
                   sockVars, recvVars, sendVars, callVars, timers>>

\* doConnect line 172: changeState(Connecting, nil), then the dial starts
DoConnectMark ==
    /\ enginePc = "connect"
    /\ changeState(Connecting, NoConn)
    /\ dials' = dials + 1
    /\ enginePc' = "dialing"
    /\ UNCHANGED <<codecVars, streamVars, lifeVars, cfg, stopping, stopReturned, starterPc, readerPc, sockVars,
                   recvVars, sendVars, callVars, timers>>

\* createConn returned an error: changeState(Disconnected, nil)
DialFailure ==
    /\ enginePc = "dialing"
    /\ changeState(Disconnected, NoConn)
    /\ enginePc' = "select"
    /\ UNCHANGED <<codecVars, streamVars, lifeVars, cfg, stopping, stopReturned, starterPc, dials, readerPc,
                   sockVars, recvVars, sendVars, callVars, timers>>

\* createConn returned a connection: changeState(Connected, conn) and
\* go c.readLoop(c.conn)
DialSuccess ==
    /\ enginePc = "dialing"
    /\ changeState(Connected, dials)
    /\ connStatus' = [connStatus EXCEPT ![dials] = "open"]
    /\ readerPc' = [readerPc EXCEPT ![dials] = "run"]
    /\ enginePc' = "select"
    /\ UNCHANGED <<codecVars, streamVars, lifeVars, cfg, stopping, stopReturned, starterPc, dials, sockIn,
                   framesSent, recvVars, sendVars, callVars, timers>>

\* ---------------------------------------------------- engine: doDisconnect
\* first half of doDisconnect: the isState test; a no-op when Disconnected or
\* Disconnecting. After doDone the loop returns instead of selecting again.
doDisconnect(done) ==
    /\ enginePc' = IF isState({Disconnected, Disconnecting})
                     THEN (IF done THEN "stopped" ELSE "select")
                     ELSE "disconnect"
    /\ stopping' = done

\* client.Disconnect: c.wantDisconnect <- true taken by the loop
ClientDisconnect ==
    /\ inSelect
    /\ ~stopReturned
    /\ doDisconnect(FALSE)
    /\ UNCHANGED <<codecVars, streamVars, lifeVars, cfg, stopReturned, starterPc, stateVars, dials, readerPc,
                   sockVars, recvVars, sendVars, callVars, timers>>

\* Device.Stop -> client.Stop: c.done <- true taken by the loop, which runs
\* doDone (= doDisconnect) and returns
DeviceStop ==
    /\ inSelect
    /\ ~stopReturned
    /\ stopReturned' = TRUE
    /\ doDisconnect(TRUE)
    /\ UNCHANGED <<codecVars, streamVars, lifeVars, cfg, starterPc, stateVars, dials, readerPc, sockVars,
                   recvVars, sendVars, callVars, timers>>

\* doDisconnect line 196: changeState(Disconnecting, c.conn)
DoDisconnectMark ==
    /\ enginePc = "disconnect"
    /\ changeState(Disconnecting, conn)
    /\ enginePc' = "closing"
    /\ UNCHANGED <<codecVars, streamVars, lifeVars, cfg, stopping, stopReturned, starterPc, dials, readerPc,
                   sockVars, recvVars, sendVars, callVars, timers>>

\* doDisconnect lines 198-202: c.conn.Close(), changeState(Disconnected, nil)
DoDisconnectClose ==
    /\ enginePc = "closing"
    /\ connStatus' = [connStatus EXCEPT ![conn] = "closed"]
    /\ changeState(Disconnected, NoConn)
    /\ enginePc' = IF stopping THEN "stopped" ELSE "select"
    /\ UNCHANGED <<codecVars, streamVars, lifeVars, cfg, stopping, stopReturned, starterPc, dials, readerPc,
                   sockIn, framesSent, recvVars, sendVars, callVars,
                   timers>>


\* --------------------------------------------------------- the receiver
\* the receiver sends one more frame on an open connection
ServerSend(c) ==
    /\ connStatus[c] = "open"
    /\ framesSent < MaxFrames
    /\ framesSent' = framesSent + 1
    /\ sockIn' = [sockIn EXCEPT ![c] = Append(@, <<c, framesSent + 1>>)]
    /\ UNCHANGED <<codecVars, streamVars, lifeVars, cfg, engineVars, stopReturned, starterPc, stateVars, dials,
                   connStatus, readerPc, recvVars, sendVars, callVars, timers>>

\* the receiver closes an open connection
ServerClose(c) ==
    /\ connStatus[c] = "open"
    /\ connStatus' = [connStatus EXCEPT ![c] = "peerClosed"]
    /\ UNCHANGED <<codecVars, streamVars, lifeVars, cfg, engineVars, stopReturned, starterPc, stateVars, dials,
                   readerPc, sockIn, framesSent, recvVars, sendVars, callVars, timers>>

\* ------------------------------------------------------------- readLoop
\* (mutant) a frame decoded while the channel is full is dropped
ReadFrameOrDrop(c) ==
    /\ readerPc[c] = "run"
    /\ sockIn[c] # <<>>
    /\ received' = IF Len(received) < MaxRecvQueue
                      THEN Append(received, Head(sockIn[c]))
                      ELSE received
    /\ sockIn' = [sockIn EXCEPT ![c] = Tail(@)]
    /\ UNCHANGED <<codecVars, streamVars, lifeVars, cfg, engineVars, stopReturned, starterPc, stateVars, dials,
                   connStatus, readerPc, framesSent, handled, sendVars,
                   callVars, timers>>

\* readLoop lines 225-265, one frame: header, payload, ParseISCP, then
\* c.received <- iscp.Command() (blocks while the channel is full)
ReadFrame(c) ==
    /\ readerPc[c] = "run"
    /\ sockIn[c] # <<>>
    /\ Len(received) < MaxRecvQueue
    /\ received' = Append(received, Head(sockIn[c]))
    /\ sockIn' = [sockIn EXCEPT ![c] = Tail(@)]
    /\ UNCHANGED <<codecVars, streamVars, lifeVars, cfg, engineVars, stopReturned, starterPc, stateVars, dials,
                   connStatus, readerPc, framesSent, handled, sendVars,
                   callVars, timers>>

\* readLoop: a read returns io.EOF (the receiver closed and nothing is left to
\* read), the loop returns and the deferred function tests isState(Connected).
\* A read on a socket closed locally fails with another error and the loop
\* continues, so that reader never gets here.
ReadEOF(c) ==
    /\ readerPc[c] = "run"
    /\ connStatus[c] = "peerClosed"
    /\ sockIn[c] = <<>>
    /\ readerPc' = [readerPc EXCEPT ![c] = IF isState({Connected}) THEN "change" ELSE "done"]
    /\ UNCHANGED <<codecVars, streamVars, lifeVars, cfg, engineVars, stopReturned, starterPc, stateVars, dials,
                   sockVars, recvVars, sendVars, callVars, timers>>

\* readLoop line 218, after the test succeeded: changeState(Disconnected, nil)
ReadChange(c) ==
    /\ readerPc[c] = "change"
    /\ changeState(Disconnected, NoConn)
    /\ readerPc' = [readerPc EXCEPT ![c] = "done"]
    /\ UNCHANGED <<codecVars, streamVars, lifeVars, cfg, engineVars, stopReturned, starterPc, dials, sockVars,
                   recvVars, sendVars, callVars, timers>>

\* --------------------------------------------------- engine: doReceive
\* case cmd := <-c.received: doReceive(cmd) calls c.handler(cmd)
\* (NewDevice always installs Device.handleReceived)
doReceive ==
    /\ inSelect
    /\ received # <<>>
    /\ handled' = Append(handled, Head(received))
    /\ received' = Tail(received)
    /\ UNCHANGED <<codecVars, streamVars, lifeVars, cfg, engineVars, stopReturned, starterPc, stateVars, dials,
                   readerPc, sockVars, sendVars, callVars, timers>>

\* ------------------------------------------------------ engine: doSend
\* (mutant) the loop takes the task queued last
chanRecvLast(q) == <<q[Len(q)], SubSeq(q, 1, Len(q) - 1)>>

\* a receive from a buffered channel q: <<value received, channel afterwards>>
chanRecv(q) == <<Head(q), Tail(q)>>

\* t.Reply <- err on the task's own channel of capacity 1: never blocks. The
\* value is kept while the caller of task t is in its select on the channel;
\* a caller that returned at once (timeout <= 0) or timed out never reads it.
sendReply(t, err) ==
    reply' = IF t = callNo /\ callPc = "await"
               THEN [reply EXCEPT ![t] = err]
               ELSE reply

\* (mutant) a task discarded while not connected gets no reply
doSendDiscardSilent(t) ==
    /\ ~isState({Connected})
    /\ UNCHANGED reply
    /\ UNCHANGED written

\* doSend where the state is not Connected: reply ErrNotConnected
doSendDiscard(t) ==
    /\ ~isState({Connected})
    /\ sendReply(t, ErrNotConnected)
    /\ UNCHANGED written

\* doSend, conn.Write succeeded: the frame is on the socket, reply nil
doSendWrite(t) ==
    /\ isState({Connected})
    /\ written' = Append(written, t)
    /\ sendReply(t, Nil)

\* (mutant) a failed write is reported as success
doSendErrorAsNil(t) ==
    /\ isState({Connected})
    /\ connStatus[conn] # "open"
    /\ sendReply(t, Nil)
    /\ UNCHANGED written

\* doSend, conn.Write failed (possible once the receiver has gone): reply err
doSendError(t) ==
    /\ isState({Connected})
    /\ connStatus[conn] # "open"
    /\ sendReply(t, ErrWrite)
    /\ UNCHANGED written

\* case task := <-c.send: doSend(task)
doSend ==
    /\ inSelect
    /\ send # <<>>
    /\ send' = chanRecv(send)[2]
    /\ \/ doSendDiscard(chanRecv(send)[1])
       \/ doSendWrite(chanRecv(send)[1])
       \/ doSendError(chanRecv(send)[1])
    /\ UNCHANGED <<codecVars, streamVars, lifeVars, cfg, engineVars, stopReturned, starterPc, stateVars, dials,
                   readerPc, sockVars, recvVars, callVars, timers>>

\* ------------------------------------------- Device.connectionChanged
\* lines 135-145: the reconnect goroutine is started inside the branch
\* taken for Disconnected when onDisconnect is set
schedulesReconnect(s) ==
    s = Disconnected /\ cfg.onDisconnect /\ cfg.allowReconnect

\* one callback goroutine started by changeState runs connectionChanged(s):
\* it calls onConnect / onDisconnect and, for Disconnected with
\* allowReconnect, starts the goroutine that sleeps and then calls
\* client.Connect
connectionChanged(s) ==
    /\ cbPending[s] > 0
    /\ cbPending' = [cbPending EXCEPT ![s] = @ - 1]
    /\ timers' = IF schedulesReconnect(s) THEN timers + 1 ELSE timers
    /\ UNCHANGED <<codecVars, streamVars, lifeVars, cfg, engineVars, stopReturned, starterPc, state, conn,
                   lastChange, dials, readerPc, sockVars, recvVars, sendVars,
                   callVars>>

\* -------------------------------------------------------- Device.Start
\* client.Start: go c.loop(); then the caller goes on to client.Connect
DeviceStart ==
    /\ enginePc = "notstarted"
    /\ enginePc' = "select"
    /\ starterPc' = "connect"
    /\ UNCHANGED <<codecVars, streamVars, lifeVars, cfg, stopping, stopReturned, stateVars, dials, readerPc,
                   sockVars, recvVars, sendVars, callVars, timers>>


\* ------------------------------------------- client.Start, client.Stop
\* client.Start (lines 70-73) on a client that has been started before:
\* go c.loop() without a test, one more loop goroutine selects on the
\* channels of the client
ClientStart ==
    /\ enginePc # "notstarted"
    /\ loops < MaxRestarts
    /\ loops' = loops + 1
    /\ UNCHANGED <<codecVars, streamVars, cfg, engineVars, stopReturned, starterPc, stateVars,
                   dials, readerPc, sockVars, recvVars, sendVars, callVars, timers,
                   stopWaiting>>

\* client.Stop (lines 75-78), called at any time: the caller blocks in
\* c.done <- true until a loop receives
StopCall ==
    /\ stopWaiting < MaxStops
    /\ stopWaiting' = stopWaiting + 1
    /\ UNCHANGED <<codecVars, streamVars, cfg, engineVars, stopReturned, starterPc, stateVars,
                   dials, readerPc, sockVars, recvVars, sendVars, callVars, timers,
                   loops>>

\* case <-c.done of the first loop: a Stop call returns; the loop runs doDone
\* and returns
StopTaken ==
    /\ inSelect
    /\ stopWaiting > 0
    /\ stopWaiting' = stopWaiting - 1
    /\ stopReturned' = TRUE
    /\ doDisconnect(TRUE)
    /\ UNCHANGED <<codecVars, streamVars, cfg, starterPc, stateVars, dials, readerPc, sockVars,
                   recvVars, sendVars, callVars, timers, loops>>

\* doDisconnect run from its first to its last line by a further loop:
\* nothing when Disconnected or Disconnecting; else
\* changeState(Disconnecting, c.conn), c.conn.Close() and
\* changeState(Disconnected, nil). While the first loop is in its first dial
\* the state is Connecting and c.conn is nil: Close on it panics, which ends
\* the program.
loopDisconnect ==
    IF isState({Disconnected, Disconnecting})
      THEN UNCHANGED <<stateVars, connStatus, enginePc>>
    ELSE IF conn = NoConn
      THEN /\ state' = Disconnecting
           /\ lastChange' = <<state, Disconnecting>>
           /\ enginePc' = "panic"
           /\ UNCHANGED <<conn, cbPending, connStatus>>
    ELSE /\ state' = Disconnected
         /\ lastChange' = <<Disconnecting, Disconnected>>
         /\ cbPending' = IF callbackActs(Disconnected)
                            THEN [cbPending EXCEPT ![Disconnected] = @ + 1]
                            ELSE cbPending
         /\ connStatus' = [connStatus EXCEPT ![conn] = "closed"]
         /\ UNCHANGED <<conn, enginePc>>

\* case <-c.done of a further loop: a Stop call returns; the loop runs doDone
\* and returns
LoopDone ==
    /\ loops > 0
    /\ enginePc # "panic"
    /\ stopWaiting > 0
    /\ stopWaiting' = stopWaiting - 1
    /\ stopReturned' = TRUE
    /\ loops' = loops - 1
    /\ loopDisconnect
    /\ UNCHANGED <<codecVars, streamVars, cfg, stopping, starterPc, dials, readerPc, sockIn,
                   framesSent, recvVars, sendVars, callVars, timers>>

\* case <-c.wantDisconnect of a further loop, for a client.Disconnect call
LoopDisconnect ==
    /\ loops > 0
    /\ enginePc # "panic"
    /\ ~stopReturned
    /\ loopDisconnect
    /\ UNCHANGED <<codecVars, streamVars, lifeVars, cfg, stopping, stopReturned, starterPc, dials,
                   readerPc, sockIn, framesSent, recvVars, sendVars, callVars, timers>>

\* doConnect run from its first to its last line by a further loop: nothing
\* when Connected or Connecting; else changeState(Connecting, nil), the dial,
\* and changeState(Disconnected, nil) or changeState(Connected, conn) with
\* go c.readLoop(c.conn)
loopConnect(success) ==
    IF isState({Connected, Connecting})
      THEN UNCHANGED <<stateVars, dials, connStatus, readerPc>>
    ELSE /\ dials' = dials + 1
         /\ state' = IF success THEN Connected ELSE Disconnected
         /\ conn' = IF success THEN dials + 1 ELSE conn
         /\ lastChange' = <<Connecting, state'>>
         /\ cbPending' = IF callbackActs(state')
                            THEN [cbPending EXCEPT ![state'] = @ + 1]
                            ELSE cbPending
         /\ connStatus' = IF success THEN [connStatus EXCEPT ![dials + 1] = "open"]
                          ELSE connStatus
         /\ readerPc' = IF success THEN [readerPc EXCEPT ![dials + 1] = "run"]
                        ELSE readerPc

\* case <-c.wantConnect of a further loop, for the client.Connect of
\* Device.Start or for a client.Connect call
LoopConnect ==
    /\ loops > 0
    /\ enginePc # "panic"
    /\ isState({Connected, Connecting}) \/ dials < MaxDials
    /\ \/ starterPc = "connect" /\ starterPc' = "done"
       \/ ~stopReturned /\ UNCHANGED starterPc
    /\ \E success \in BOOLEAN : loopConnect(success)
    /\ UNCHANGED <<codecVars, streamVars, lifeVars, cfg, engineVars, stopReturned, sockIn,
                   framesSent, recvVars, sendVars, callVars, timers>>

\* ------------------------------------------------------ Device.SendISCP
\* client.WaitConnect(timeout): waits until the state is Connected or the
\* timeout has run out. Time is not modelled: a timeout of any length may
\* have run out, a timeout <= 0 has run out at once.
WaitConnect(t) == isState({Connected}) \/ t \in Timeouts

\* SendISCP(cmd, t) is entered by the sending goroutine of the application,
\* once its call before has returned; with autoConnect it first blocks in
\* client.Connect
SendISCP(t) ==
    /\ callPc \in {"idle", "done"}
    /\ callNo < MaxSends
    /\ callNo' = callNo + 1
    /\ callPc' = IF cfg.autoConnect THEN "connect" ELSE "wait"
    /\ callTimeout' = t
    /\ callEntry' = deviceStatus
    /\ callResult' = None
    /\ callCheck' = None
    /\ UNCHANGED <<codecVars, streamVars, lifeVars, cfg, engineVars, stopReturned, starterPc, stateVars, dials,
                   readerPc, sockVars, recvVars, sendVars, timers>>

\* (mutant) Send refuses only when Disconnected
sendRefusedDisconnectedOnly == isState({Disconnected})

\* the isState test of client.Send (lines 95-97): ErrNotConnected when
\* Disconnected or Disconnecting
sendRefused == isState({Disconnected, Disconnecting})


\* WaitConnect returns and client.Send makes its isState test
Send ==
    /\ callPc = "wait"
    /\ WaitConnect(callTimeout)
    /\ callCheck' = state
    /\ IF sendRefused
         THEN callPc' = "done" /\ callResult' = ErrNotConnected
         ELSE callPc' = "enqueue" /\ UNCHANGED callResult
    /\ UNCHANGED <<codecVars, streamVars, lifeVars, cfg, engineVars, stopReturned, starterPc, stateVars, dials,
                   readerPc, sockVars, recvVars, sendVars, callNo, callTimeout,
                   callEntry, timers>>

\* client.Send lines 98-103: c.send <- sendTask (blocks while the channel is
\* full); with timeout <= 0 return nil
SendEnqueue ==
    /\ callPc = "enqueue"
    /\ Len(send) < MaxSendQueue
    /\ send' = Append(send, callNo)
    /\ IF callTimeout <= 0
         THEN callPc' = "done" /\ callResult' = Nil
         ELSE callPc' = "await" /\ UNCHANGED callResult
    /\ UNCHANGED <<codecVars, streamVars, lifeVars, cfg, engineVars, stopReturned, starterPc, stateVars, dials,
                   readerPc, sockVars, recvVars, reply, written, callNo,
                   callTimeout, callEntry, callCheck, timers>>

\* client.Send lines 105-107: case err := <-reply
SendReply ==
    /\ callPc = "await"
    /\ reply[callNo] # None
    /\ callPc' = "done"
    /\ callResult' = reply[callNo]
    /\ reply' = [reply EXCEPT ![callNo] = None]
    /\ UNCHANGED <<codecVars, streamVars, lifeVars, cfg, engineVars, stopReturned, starterPc, stateVars, dials,
                   readerPc, sockVars, recvVars, send, written, callNo,
                   callTimeout, callEntry, callCheck, timers>>

\* client.Send lines 108-109: case <-time.After(timeout)
SendTimeout ==
    /\ callPc = "await"
    /\ callPc' = "done"
    /\ callResult' = ErrTimeout
    /\ reply' = [reply EXCEPT ![callNo] = None]
    /\ UNCHANGED <<codecVars, streamVars, lifeVars, cfg, engineVars, stopReturned, starterPc, stateVars, dials,
                   readerPc, sockVars, recvVars, send, written, callNo, callTimeout,
                   callEntry, callCheck, timers>>

\* ------------------------------------- SendISCP from the message handler
\* the task of a SendISCP call made by the message handler
HandlerTask == 0

\* case cmd := <-c.received with a message handler (the OnMessage callback,
\* called by handleReceived on the goroutine of the loop) that calls
\* SendISCP. With autoConnect the call begins with client.Connect, a send on
\* the unbuffered c.wantConnect that only the loop receives from: the loop
\* waits for itself. Else client.Send returns ErrNotConnected after its
\* isState test, or does c.send <- task, which with a full channel waits
\* for the loop as well. After the task is queued the call returns, at once
\* or with ErrTimeout when its timeout has run out (no reply can come while
\* the loop is in the handler).
HandlerSendISCP ==
    /\ inSelect
    /\ received # <<>>
    /\ handled' = Append(handled, Head(received))
    /\ received' = Tail(received)
    /\ IF cfg.autoConnect
         THEN enginePc' = "blocked" /\ UNCHANGED send
       ELSE IF sendRefused
         THEN UNCHANGED <<enginePc, send>>
       ELSE IF Len(send) < MaxSendQueue
         THEN send' = Append(send, HandlerTask) /\ UNCHANGED enginePc
       ELSE enginePc' = "blocked" /\ UNCHANGED send
    /\ UNCHANGED <<codecVars, streamVars, lifeVars, cfg, stopping, stopReturned, starterPc, stateVars, dials,
                   readerPc, sockVars, reply, written, callVars, timers>>

\* ------------------------------------------------ frame codec (message.go)
\* Bytes are numbers 0..255, strings and byte slices are sequences of bytes.
\* longest command the codec is called with
MaxCmdLen == 5
\* frames on the connection of readLoop
MaxStreamFrames == 2
\* TCP segments that carry the frames
MaxSegments == 3

\* "!" and "1"
iscpStart == <<33>>
unitTypeReceiver == <<49>>
headerSize == 16
eISCPVersion == 1
terminator == <<13, 10>>
cr == 13
lf == 10
eof == 26
\* the magic "ISCP"
magic == <<73, 83, 67, 80>>

\* error values of the decoder (errors.New in message.go), and the run-time
\* panic of a slice expression whose bounds are out of range
ErrHeaderTooShort == "eISCP header too short"
ErrMagic == "missing start sequence in message header"
ErrHeaderShorter == "eISCP header shorter than indicated"
ErrMessageTooShort == "eISCP message too short"
ErrISCPTooShort == "ISCP message too short"
ErrStartCharacter == "missing start character '!'"
ErrReceiverType == "missing receiver type '1'"
Panic == "panic: slice bounds out of range"
DecodeErrors ==
    {ErrHeaderTooShort, ErrMagic, ErrHeaderShorter, ErrMessageTooShort,
     ErrISCPTooShort, ErrStartCharacter, ErrReceiverType}

\* ISCPMessage.Format
Format(command) == iscpStart \o unitTypeReceiver \o command \o terminator

\* (mutant) the length is written least significant byte first
PutUint32LittleEndian(v) ==
    <<v % 256, (v \div 256) % 256, (v \div 65536) % 256, (v \div 16777216) % 256>>

\* binary.BigEndian.PutUint32
PutUint32(v) ==
    <<(v \div 16777216) % 256, (v \div 65536) % 256, (v \div 256) % 256, v % 256>>

\* EISCPMessage.Raw: the 16 byte header, then the payload
Raw(command) ==
    LET payload == Format(command)
        headerLen == PutUint32(headerSize)
        msgLen == PutUint32(Len(payload))
    IN  magic \o headerLen \o msgLen \o <<eISCPVersion, 0, 0, 0>> \o payload

\* binary.BigEndian.Uint32 of four bytes. A 32 bit value is kept as its two
\* 16 bit halves <<high, low>>, its value being high * 65536 + low.
Uint32(b) == <<b[1] * 256 + b[2], b[3] * 256 + b[4]>>

\* the conversion int(v) of a uint32: the same value where int has 64 bits,
\* the two's complement reading where int has 32 bits. An int is kept as
\* <<high, low>> with a signed high part.
toInt(v) ==
    IF intBits = 32 /\ v[1] >= 32768 THEN <<v[1] - 65536, v[2]>> ELSE v

\* a + b on int, wrapping around where int has 32 bits
addInt(a, b) ==
    LET low == a[2] + b[2]
        high == a[1] + b[1] + (low \div 65536)
    IN  <<IF intBits = 32 THEN ((high + 32768) % 65536) - 32768 ELSE high,
          low % 65536>>

\* len(data) < x for a length n and an int x
lenLess(n, x) == x[1] > 0 \/ (x[1] = 0 /\ n < x[2])

\* the slice expression data[low:high] is in range: 0 <= low <= high <= n
sliceInRange(low, high, n) ==
    /\ low[1] = 0
    /\ high[1] = 0
    /\ low[2] <= high[2]
    /\ high[2] <= n

\* ParseHeader: <<header size, payload size>> and the error
ParseHeader(data) ==
    IF Len(data) < 12
      THEN [headerSize |-> <<0, 0>>, payloadSize |-> <<0, 0>>, err |-> ErrHeaderTooShort]
    ELSE IF SubSeq(data, 1, 4) # magic
      THEN [headerSize |-> <<0, 0>>, payloadSize |-> <<0, 0>>, err |-> ErrMagic]
    ELSE IF lenLess(Len(data), toInt(Uint32(SubSeq(data, 5, 8))))
      THEN [headerSize |-> <<0, 0>>, payloadSize |-> <<0, 0>>, err |-> ErrHeaderShorter]
    ELSE [headerSize |-> toInt(Uint32(SubSeq(data, 5, 8))),
          payloadSize |-> toInt(Uint32(SubSeq(data, 9, 12))),
          err |-> Nil]

\* (mutant) of CR LF only the LF is taken off
afterTerminatorLFOnly(s, offset) ==
    IF s[offset + 1] = cr THEN offset - 1
    ELSE IF s[offset + 1] = lf THEN offset - 1
    ELSE offset

\* ParseISCP lines 397-406: the offset (from 0) of the last byte before a
\* terminator CR, LF or CR LF at the end of s, offset being the last byte of s
afterTerminator(s, offset) ==
    IF s[offset + 1] = cr THEN offset - 1
    ELSE IF s[offset + 1] = lf
      THEN (IF s[offset] = cr THEN offset - 2 ELSE offset - 1)
    ELSE offset

\* ParseISCP lines 410-412: one EOF byte before the terminator is taken off
afterEOF(s, offset) == IF s[offset + 1] = eof THEN offset - 1 ELSE offset

\* ParseISCP: the command s[2 : offset+1] and the error
ParseISCP(data) ==
    IF Len(data) < 5 THEN [command |-> <<>>, err |-> ErrISCPTooShort]
    ELSE IF data[1] # iscpStart[1] THEN [command |-> <<>>, err |-> ErrStartCharacter]
    ELSE IF data[2] # unitTypeReceiver[1] THEN [command |-> <<>>, err |-> ErrReceiverType]
    ELSE LET offset == afterEOF(data, afterTerminator(data, Len(data) - 1))
         IN  [command |-> SubSeq(data, 3, offset + 1), err |-> Nil]

\* ParseEISCP: the command of the message and the error; Panic where the
\* slice expression data[headerSize:totalSize] is out of range
ParseEISCP(data) ==
    LET header == ParseHeader(data)
        totalSize == addInt(header.headerSize, header.payloadSize)
    IN  IF header.err # Nil THEN [command |-> <<>>, err |-> header.err]
        ELSE IF lenLess(Len(data), totalSize)
          THEN [command |-> <<>>, err |-> ErrMessageTooShort]
        ELSE IF ~sliceInRange(header.headerSize, totalSize, Len(data))
          THEN [command |-> <<>>, err |-> Panic]
        ELSE ParseISCP(SubSeq(data, header.headerSize[2] + 1, totalSize[2]))

\* ---------------------------------------------------- codec: the inputs
\* the letters and digits of commands ("P", "1"), and the bytes the decoder
\* treats specially
Printable == {80, 49}
Chars == Printable \cup {cr, lf, eof}

\* commands: a group of three letters, then a parameter of any bytes
Commands ==
    UNION {{c \in [1..n -> Chars] : \A i \in 1..3 : c[i] \in Printable} :
             n \in 3..MaxCmdLen}

\* the terminators a receiver may use: CR LF, CR, LF, none
Terminators == {<<cr, lf>>, <<cr>>, <<lf>>, <<>>}

\* header and payload lengths declared in a header, as four bytes
DeclaredHeaderSizes ==
    {<<0, 0, 0, 16>>, <<0, 0, 0, 12>>, <<0, 0, 0, 20>>, <<0, 0, 1, 0>>,
     <<128, 0, 0, 0>>, <<255, 255, 255, 255>>}
DeclaredPayloadSizes ==
    {<<0, 0, 0, 7>>, <<0, 0, 0, 0>>, <<0, 0, 0, 3>>, <<0, 0, 0, 9>>,
     <<0, 0, 0, 1>>, <<255, 255, 255, 240>>}

\* a frame as the receiver may send it
frameBody == Format(<<80, 80, 80>>)
frame(m, hs, ps) == m \o hs \o ps \o <<eISCPVersion, 0, 0, 0>> \o frameBody

\* the arguments of the codec functions: a command to encode; a payload
\* "!1" + command + terminator with or without a byte 0x1A after it; a
\* buffer holding the first n bytes of a frame with or without the magic
CommandInputs == [kind : {"command"}, command : Commands]
PayloadInputs ==
    {[kind |-> "payload", command |-> c, terminator |-> t, eofAfter |-> e,
      data |-> iscpStart \o unitTypeReceiver \o c \o t \o (IF e THEN <<eof>> ELSE <<>>)] :
        c \in Commands, t \in Terminators, e \in BOOLEAN}
BufferInputs ==
    {[kind |-> "buffer",
      data |-> SubSeq(frame(m, hs, ps), 1, n)] :
        m \in {magic, <<73, 83, 67, 81>>}, hs \in DeclaredHeaderSizes,
        ps \in DeclaredPayloadSizes, n \in 0..(headerSize + Len(frameBody))}

\* the payloads of frames as any receiver may send them: "!1", a command of
\* up to three letters or digits, with or without the byte 0x1A, and a
\* terminator
ReceivedCommands == UNION {[1..n -> Printable] : n \in 0..3}
ReceivedInputs ==
    {[kind |-> "received", command |-> c,
      data |-> iscpStart \o unitTypeReceiver \o c \o e \o t] :
        c \in ReceivedCommands, e \in {<<>>, <<eof>>}, t \in Terminators}

\* ------------------------------------------------- codec: the calls
\* m := NewEISCPMessage(c); raw := m.Raw()
CallRaw ==
    /\ codecOp = "none"
    /\ codecIn.kind = "command"
    /\ codecOp' = "Raw"
    /\ codecOut' = Raw(codecIn.command)
    /\ UNCHANGED <<clientVars, streamVars, intBits, codecIn>>

\* ParseEISCP(NewEISCPMessage(c).Raw())
EncodeDecode ==
    /\ codecOp = "none"
    /\ codecIn.kind = "command"
    /\ codecOp' = "EncodeDecode"
    /\ codecOut' = ParseEISCP(Raw(codecIn.command))
    /\ UNCHANGED <<clientVars, streamVars, intBits, codecIn>>

\* ParseISCP(data) on a payload
CallParseISCP ==
    /\ codecOp = "none"
    /\ codecIn.kind = "payload"
    /\ codecOp' = "ParseISCP"
    /\ codecOut' = ParseISCP(codecIn.data)
    /\ UNCHANGED <<clientVars, streamVars, intBits, codecIn>>

\* ParseHeader(data) on a buffer
CallParseHeader ==
    /\ codecOp = "none"
    /\ codecIn.kind = "buffer"
    /\ codecOp' = "ParseHeader"
    /\ codecOut' = ParseHeader(codecIn.data)
    /\ UNCHANGED <<clientVars, streamVars, intBits, codecIn>>

\* ParseEISCP(data) on a buffer
CallParseEISCP ==
    /\ codecOp = "none"
    /\ codecIn.kind = "buffer"
    /\ codecOp' = "ParseEISCP"
    /\ codecOut' = ParseEISCP(codecIn.data)
    /\ UNCHANGED <<clientVars, streamVars, intBits, codecIn>>

\* --------------------------------------------- readLoop, byte by byte
\* n zero bytes: make([]byte, n)
zeros(n) == [i \in 1..n |-> 0]

\* r.Read(p) of the bufio.Reader for len(p) = size > 0: a reader that holds
\* no bytes reads the connection once and gets the segment that has arrived;
\* then the bytes it holds are copied to the front of p, as many as there
\* are and as fit. One call is one read of the connection at most, whatever
\* the size asked for.
bufioRead(size) ==
    LET held == IF rd = <<>> THEN Head(wire) ELSE rd
        n == IF Len(held) < size THEN Len(held) ELSE size
    IN  [data |-> SubSeq(held, 1, n),
         rd |-> SubSeq(held, n + 1, Len(held)),
         wire |-> IF rd = <<>> THEN Tail(wire) ELSE wire]

\* readLoop: r.Read(buf) and ParseHeader(buf). buf is reused: what the read
\* does not overwrite stays from the headers before
ReadHeader ==
    /\ loopPc = "header"
    /\ IF rd = <<>> /\ wire = <<>>
         THEN \* io.EOF: return
              loopPc' = "returned" /\ UNCHANGED <<wire, rd, buf, payloadSize>>
         ELSE   LET read == bufioRead(headerSize)
                    filled == read.data \o SubSeq(buf, Len(read.data) + 1, headerSize)
                    header == ParseHeader(filled)
                IN  /\ buf' = filled
                    /\ rd' = read.rd
                    /\ wire' = read.wire
                    /\ IF header.err # Nil
                         THEN loopPc' = "header" /\ UNCHANGED payloadSize
                         ELSE loopPc' = "payload" /\ payloadSize' = header.payloadSize
    /\ UNCHANGED <<clientVars, codecVars, sent, delivered>>

\* readLoop with the payload in hand: ParseISCP(payload) and c.received <-
handlePayload(payload) ==
    /\ loopPc' = "header"
    /\ delivered' = IF ParseISCP(payload).err # Nil THEN delivered
                    ELSE Append(delivered, ParseISCP(payload).command)

\* readLoop: make([]byte, payloadSize), r.Read(payload) and the rest of the
\* round. A length that is negative or beyond the address space makes make
\* panic; a read of length 0 returns at once
ReadPayload ==
    /\ loopPc = "payload"
    /\ IF payloadSize[1] # 0
         THEN loopPc' = "panic" /\ UNCHANGED <<wire, rd, delivered>>
       ELSE IF payloadSize[2] = 0
         THEN handlePayload(<<>>) /\ UNCHANGED <<wire, rd>>
       ELSE IF rd = <<>> /\ wire = <<>>
         THEN loopPc' = "returned" /\ UNCHANGED <<wire, rd, delivered>>
       ELSE   LET read == bufioRead(payloadSize[2]) IN
              /\ rd' = read.rd
              /\ wire' = read.wire
              /\ handlePayload(read.data \o zeros(payloadSize[2] - Len(read.data)))
    /\ UNCHANGED <<clientVars, codecVars, sent, buf, payloadSize>>

\* the frames the receiver puts on the connection before it closes it
StreamCommands == {<<80, 87, 82, 48, 49>>, <<77, 86, 76>>}
Streams == UNION {[1..n -> StreamCommands] : n \in 1..MaxStreamFrames}

\* the ways TCP hands over the bytes in at most n segments
RECURSIVE Segmentations(_, _)
Segmentations(bytes, n) ==
    IF bytes = <<>> THEN {<<>>}
    ELSE {<<bytes>>} \cup
         (IF n <= 1 THEN {}
          ELSE UNION {{<<SubSeq(bytes, 1, k)>> \o rest :
                         rest \in Segmentations(SubSeq(bytes, k + 1, Len(bytes)), n - 1)} :
                      k \in 1..(Len(bytes) - 1)})

\* the bytes of the frames, one after the other
RECURSIVE streamBytes(_)
streamBytes(cs) == IF cs = <<>> THEN <<>> ELSE Raw(Head(cs)) \o streamBytes(Tail(cs))

\* readLoop at the given position on a connection that carries the frames
\* of one of the command sequences and is then closed by the receiver
InitReader(streams, pc) ==
    /\ sent \in streams
    /\ wire \in Segmentations(streamBytes(sent), MaxSegments)
    /\ rd = <<>>
    /\ buf = zeros(headerSize)
    /\ payloadSize = <<0, 0>>
    /\ loopPc = pc
    /\ delivered = <<>>

\* frames as a receiver may send them: well-formed, with a wrong magic in the
\* header ("ISCQ"), or with a payload that does not begin with "!" ("?1...")
FrameKinds == {"good", "badHeader", "badPayload"}
StreamFrames == [kind : FrameKinds, command : StreamCommands]
FrameStreams == UNION {[1..n -> StreamFrames] : n \in 1..MaxStreamFrames}

\* the bytes of one such frame
malformed(kind, raw) ==
    IF kind = "badHeader" THEN <<73, 83, 67, 81>> \o SubSeq(raw, 5, Len(raw))
    ELSE IF kind = "badPayload"
      THEN SubSeq(raw, 1, headerSize) \o <<63>> \o SubSeq(raw, headerSize + 2, Len(raw))
    ELSE raw
frameBytes(f) == malformed(f.kind, Raw(f.command))

\* the bytes of the frames, one after the other
RECURSIVE framesBytes(_)
framesBytes(fs) ==
    IF fs = <<>> THEN <<>> ELSE frameBytes(Head(fs)) \o framesBytes(Tail(fs))

\* the commands of the well-formed frames among them, in order
RECURSIVE goodCommands(_)
goodCommands(fs) ==
    IF fs = <<>> THEN <<>>
    ELSE (IF Head(fs).kind = "good" THEN <<Head(fs).command>> ELSE <<>>)
           \o goodCommands(Tail(fs))

\* the ways TCP hands over the frames when no frame is split: every segment
\* holds one or more whole frames
RECURSIVE FrameSegmentations(_)
FrameSegmentations(fs) ==
    IF fs = <<>> THEN {<<>>}
    ELSE UNION {{<<framesBytes(SubSeq(fs, 1, k))>> \o rest :
                   rest \in FrameSegmentations(SubSeq(fs, k + 1, Len(fs)))} :
                k \in 1..Len(fs)}

\* readLoop at the start of a connection that carries such frames, none of
\* them split, and is then closed by the receiver; sent holds the commands
\* of the well-formed frames
InitFrames ==
    \E fs \in FrameStreams :
        /\ sent = goodCommands(fs)
        /\ wire \in FrameSegmentations(fs)
        /\ rd = <<>>
        /\ buf = zeros(headerSize)
        /\ payloadSize = <<0, 0>>
        /\ loopPc = "header"
        /\ delivered = <<>>

\* ------------------------------------------- command codec: Go's strings
\* Friendly values and payload tokens are strings; a character is a string
\* of length 1. A float64 is kept as a whole number of tenths (2.5 is 25),
\* which is exact for the values and the scales 1 and 2 used here.
\* s[i-1]: the i-th character of s
charAt(s, i) == SubSeq(s, i, i)

\* position of the character c in alphabet, 0 when it is not in it
indexOf(c, alphabet) ==
    IF \E i \in 1..Len(alphabet) : charAt(alphabet, i) = c
      THEN CHOOSE i \in 1..Len(alphabet) : charAt(alphabet, i) = c
      ELSE 0

upperCase == "ABCDEFGHIJKLMNOPQRSTUVWXYZ"
lowerCase == "abcdefghijklmnopqrstuvwxyz"
hexDigits == "0123456789ABCDEF"

\* strings.ToLower
\* the letter at position i of the lower case letters, c itself for i = 0
lowerChar(c, i) == IF i > 0 THEN charAt(lowerCase, i) ELSE c

RECURSIVE ToLower(_)
ToLower(s) ==
    IF s = "" THEN ""
    ELSE lowerChar(charAt(s, 1), indexOf(charAt(s, 1), upperCase))
         \o ToLower(SubSeq(s, 2, Len(s)))

\* the value of a digit character (letters in either case), -1 for others
digitAt(digit, letter) ==
    IF digit > 0 THEN digit - 1 ELSE IF letter > 0 THEN letter + 9 ELSE -1
digitValue(c) == digitAt(indexOf(c, hexDigits), indexOf(c, "abcdef"))

\* the number written by the digits s in the base, -1 when s is empty or has
\* a character that is no digit of the base
\* the number of the digits in front, with the digit d after them
joinDigits(d, single, front, base) ==
    IF d < 0 \/ d >= base THEN -1
    ELSE IF single THEN d
    ELSE IF front < 0 THEN -1
    ELSE front * base + d
RECURSIVE digitsValue(_, _)
digitsValue(s, base) ==
    IF s = "" THEN -1
    ELSE joinDigits(digitValue(charAt(s, Len(s))), Len(s) = 1,
                    digitsValue(SubSeq(s, 1, Len(s) - 1), base), base)

\* error of strconv: the text is no number
ErrSyntax == "strconv: invalid syntax"
\* fmt.Errorf("invalid parameter %q", raw)
ErrInvalidParameter == "invalid parameter"
\* fmt.Errorf("unknown command %q", name)
ErrUnknownCommand == "unknown command"
\* fmt.Errorf("unknown ISCP command %q", command)
ErrUnknownISCP == "unknown ISCP command"
\* fmt.Errorf("unsupported param type %q", c.ParamType)
ErrUnsupported == "unsupported param type"

\* the text after a sign, and whether the sign is a minus
unsigned(s) ==
    IF s # "" /\ charAt(s, 1) \in {"+", "-"} THEN SubSeq(s, 2, Len(s)) ELSE s
isMinus(s) == s # "" /\ charAt(s, 1) = "-"

\* strconv.ParseInt(s, base, 64): an optional sign, then digits of the base
signedValue(v, minus) ==
    IF v < 0 THEN [val |-> 0, err |-> ErrSyntax]
    ELSE [val |-> IF minus THEN 0 - v ELSE v, err |-> Nil]
ParseInt(s, base) == signedValue(digitsValue(unsigned(s), base), isMinus(s))

\* strconv.Atoi
Atoi(s) == ParseInt(s, 10)

\* strconv.ParseBool: the twelve texts it accepts
ParseBool(s) ==
    IF s \in {"1", "t", "T", "TRUE", "true", "True"} THEN [val |-> TRUE, err |-> Nil]
    ELSE IF s \in {"0", "f", "F", "FALSE", "false", "False"} THEN [val |-> FALSE, err |-> Nil]
    ELSE [val |-> FALSE, err |-> ErrSyntax]

\* 10 to the power k
RECURSIVE pow10(_)
pow10(k) == IF k <= 0 THEN 1 ELSE 10 * pow10(k - 1)

\* strconv.ParseFloat(s, 64) for decimal texts: an optional sign, digits
\* with an optional point, and an optional exponent; the value in tenths.
\* (Hex floats, "inf", "nan" and underscores are not among the values used
\* here, and the values used have at most one decimal.)
\* digits * 10^shift
scale10(digits, shift) ==
    IF shift >= 0 THEN digits * pow10(shift) ELSE digits \div pow10(0 - shift)
\* the float of the digits with fracLen of them after the point, in tenths
floatOf(digits, fracLen, exponent, minus) ==
    IF digits < 0 \/ exponent.err # Nil THEN [val |-> 0, err |-> ErrSyntax]
    ELSE signedValue(scale10(digits, exponent.val + 1 - fracLen), minus)
\* the mantissa with its point at the position (0: none)
floatDigits(mantissa, point, exponent, minus) ==
    floatOf(digitsValue(IF point = 0 THEN mantissa
                        ELSE SubSeq(mantissa, 1, point - 1)
                             \o SubSeq(mantissa, point + 1, Len(mantissa)), 10),
            IF point = 0 THEN 0 ELSE Len(mantissa) - point,
            exponent, minus)
floatParts(mantissa, exponent, minus) ==
    floatDigits(mantissa, indexOf(".", mantissa), exponent, minus)
\* the text with its "e" at the position (0: none)
floatText(body, e, minus) ==
    floatParts(IF e = 0 THEN body ELSE SubSeq(body, 1, e - 1),
               IF e = 0 THEN [val |-> 0, err |-> Nil]
               ELSE ParseInt(SubSeq(body, e + 1, Len(body)), 10),
               minus)
ParseFloat(s) == floatText(unsigned(s), indexOf("e", ToLower(unsigned(s))), isMinus(s))

\* the digits of n >= 0 in the base, letters in upper case
RECURSIVE digitsOf(_, _)
digitsOf(n, base) ==
    IF n < base THEN charAt(hexDigits, n + 1)
    ELSE digitsOf(n \div base, base) \o charAt(hexDigits, (n % base) + 1)

\* fmt's %d (base 10) and %X (base 16) of an int: a minus sign, then digits
formatInt(n, base) ==
    IF n < 0 THEN "-" \o digitsOf(0 - n, base) ELSE digitsOf(n, base)

\* the text without zeros at its end
RECURSIVE trimZeros(_)
trimZeros(s) ==
    IF s # "" /\ charAt(s, Len(s)) = "0" THEN trimZeros(SubSeq(s, 1, Len(s) - 1)) ELSE s

\* fmt's %v of a float64 (%g with the shortest digits), the value in
\* tenths: plain decimals below 10^6, and d.ddde+XX from 10^6 on
\* d.ddd of the digits
mantissaText(digs) ==
    charAt(digs, 1) \o (IF Len(digs) > 1 THEN "." \o SubSeq(digs, 2, Len(digs)) ELSE "")
\* e+XX
exponentText(exp) == "e+" \o (IF exp < 10 THEN "0" ELSE "") \o digitsOf(exp, 10)
\* the text of a value a >= 0 in tenths, whole the digits before the point
floatDigitsText(a, whole) ==
    IF a \div 10 < 1000000
      THEN whole \o (IF a % 10 = 0 THEN "" ELSE "." \o digitsOf(a % 10, 10))
      ELSE mantissaText(trimZeros(digitsOf(a, 10))) \o exponentText(Len(whole) - 1)
absText(a) == floatDigitsText(a, digitsOf(a \div 10, 10))
formatFloat(t) == IF t < 0 THEN "-" \o absText(0 - t) ELSE absText(t)

\* math.Round of a value in tenths: to the nearest whole, halves away
\* from zero
Round(t) ==
    IF t < 0 THEN 0 - (((0 - t) + 5) \div 10) * 10
    ELSE ((t + 5) \div 10) * 10

\* ------------------------------------------- command codec: the six kinds
\* ParamType
OnOff == "onOff"
OnOffToggle == "onOffToggle"
Enum == "enum"
EnumToggle == "enumToggle"
IntRange == "intRange"
IntRangeEnum == "intRangeEnum"
queryParam == "QSTN"

\* A friendly value is an interface{}: its dynamic type and its value, the
IntTypes == {"int", "int8", "int16", "int32", "int64",
             "uint", "uint8", "uint16", "uint32", "uint64"}
FloatTypes == {"float32", "float64"}
\* value of a numeric type in tenths: b, n and s hold the value of a bool, of a
\* number and of a string.
boolValue(b) == [type |-> "bool", b |-> b, n |-> 0, s |-> ""]
numberValue(type, t) == [type |-> type, b |-> FALSE, n |-> t, s |-> ""]
intValue(i) == numberValue("int", i * 10)
floatValue(t) == numberValue("float64", t)
stringValue(s) == [type |-> "string", b |-> FALSE, n |-> 0, s |-> s]

\* a (string, error) pair returned by a codec function
ok(v) == [val |-> v, err |-> Nil]
fail(e) == [val |-> "", err |-> e]

\* fmt.Sprintf("%v", raw)
Sprintv(raw) ==
    IF raw.type = "string" THEN raw.s
    ELSE IF raw.type = "bool" THEN (IF raw.b THEN "true" ELSE "false")
    ELSE IF raw.type \in IntTypes THEN formatInt(raw.n \div 10, 10)
    ELSE formatFloat(raw.n)

\* formatOnOff for a bool
formatOnOffBool(b) == IF b THEN ok("01") ELSE ok("00")

\* formatOnOff for a number: val is still an interface{} in the case of
\* twelve types, so that "val == 1" holds for an int 1 only and
\* "val == 1.0" for a float64 1.0 only
formatOnOffNumber(raw) ==
    IF (raw.type = "int" /\ raw.n = 1 * 10) \/ (raw.type = "float64" /\ raw.n = 1 * 10)
      THEN ok("01")
    ELSE IF (raw.type = "int" /\ raw.n = 0) \/ (raw.type = "float64" /\ raw.n = 0)
      THEN ok("00")
    ELSE fail(ErrInvalidParameter)

\* formatOnOff for a string: its lower case, and what ParseBool and Atoi
\* make of it
formatOnOffString(find, b, i) ==
    IF find = "on" THEN ok("01")
    ELSE IF find = "off" THEN ok("00")
    ELSE IF b.err = Nil THEN formatOnOffBool(b.val)
    ELSE IF i.err = Nil THEN formatOnOffNumber(intValue(i.val))
    ELSE fail(ErrInvalidParameter)

formatOnOff(raw) ==
    IF raw.type = "bool" THEN formatOnOffBool(raw.b)
    ELSE IF raw.type \in IntTypes \cup FloatTypes THEN formatOnOffNumber(raw)
    ELSE IF raw.type = "string"
      THEN formatOnOffString(ToLower(raw.s), ParseBool(raw.s), Atoi(raw.s))
    ELSE fail(ErrInvalidParameter)

parseOnOff(raw) ==
    IF raw = "00" THEN ok("off")
    ELSE IF raw = "01" THEN ok("on")
    ELSE fail(ErrInvalidParameter)

formatToggle(raw) ==
    IF raw.type = "string" /\ ToLower(raw.s) \in {"", "toggle", "tg"}
      THEN ok("TG")
      ELSE fail(ErrInvalidParameter)

parseToggle(raw) ==
    IF raw = "TG" THEN ok("toggle") ELSE fail(ErrInvalidParameter)

\* the first result when its error is nil, else the second
orElse(first, second) == IF first.err = Nil THEN first ELSE second
orElseAny(first, second) == IF first.err = Nil THEN {first} ELSE second

formatOnOffToggle(raw) == orElse(formatToggle(raw), formatOnOff(raw))

parseOnOffToggle(raw) == orElse(parseToggle(raw), parseOnOff(raw))

\* formatEnum ranges over a Go map, whose order differs from run to run: the
\* results are all the keys that carry the value
\* the keys that carry the value
keysOf(lookup, s) ==
    IF \E key \in DOMAIN lookup : lookup[key] = s
      THEN {ok(key) : key \in {k \in DOMAIN lookup : lookup[k] = s}}
      ELSE {fail(ErrInvalidParameter)}
formatEnum(lookup, raw) == keysOf(lookup, ToLower(Sprintv(raw)))

parseEnum(lookup, raw) ==
    IF raw \in DOMAIN lookup THEN ok(lookup[raw]) ELSE fail(ErrInvalidParameter)

formatEnumToggle(lookup, raw) == orElseAny(formatToggle(raw), formatEnum(lookup, raw))

parseEnumToggle(lookup, raw) == orElse(parseToggle(raw), parseEnum(lookup, raw))

\* the conversion of formatIntRange: the float64 of the value, in tenths
toFloat64(raw) ==
    IF raw.type \in IntTypes \cup FloatTypes THEN [val |-> raw.n, err |-> Nil]
    ELSE IF raw.type = "string" THEN ParseFloat(raw.s)
    ELSE [val |-> 0, err |-> ErrInvalidParameter]

\* "0" in front of hex of odd length
evenDigits(hex) == IF Len(hex) % 2 # 0 THEN "0" \o hex ELSE hex

\* formatIntRange after the scaling: the hex of the product
hexOfScaled(scaled, rounded) ==
    IF rounded # scaled THEN fail(ErrInvalidParameter)
    ELSE ok(evenDigits(formatInt(rounded \div 10, 16)))
\* formatIntRange after the conversion
formatNumber(lower, upper, scale, numeric) ==
    IF numeric.err # Nil THEN fail(numeric.err)
    ELSE IF numeric.val < lower * 10 \/ numeric.val > upper * 10 THEN fail(ErrInvalidParameter)
    ELSE hexOfScaled(numeric.val * scale, Round(numeric.val * scale))
formatIntRange(lower, upper, scale, raw) ==
    formatNumber(lower, upper, IF scale = 0 THEN 1 ELSE scale, toFloat64(raw))

\* parseIntRange after the division
inBounds(lower, upper, downscaled) ==
    IF downscaled < lower * 10 \/ downscaled > upper * 10 THEN fail(ErrInvalidParameter)
    ELSE ok(formatFloat(downscaled))
\* parseIntRange after strconv.ParseInt: float64(numeric) / float64(scale) in
\* tenths, exact for the scales 1 and 2
parseNumber(lower, upper, scale, numeric) ==
    IF numeric.err # Nil THEN fail(numeric.err)
    ELSE inBounds(lower, upper, (numeric.val * 10) \div scale)

parseIntRangeUnscaled(lower, upper, scale, raw) ==
    parseNumber(lower, upper, 1, ParseInt(raw, 16))

parseIntRange(lower, upper, scale, raw) ==
    parseNumber(lower, upper, IF scale = 0 THEN 1 ELSE scale, ParseInt(raw, 16))

anyOrElse(first, second) == IF \A r \in first : r.err = Nil THEN first ELSE {second}
formatIntRangeEnumFirst(lower, upper, scale, lookup, raw) ==
    anyOrElse(formatEnum(lookup, raw), formatIntRange(lower, upper, scale, raw))

formatIntRangeEnum(lower, upper, scale, lookup, raw) ==
    orElseAny(formatIntRange(lower, upper, scale, raw), formatEnum(lookup, raw))

parseIntRangeEnum(lower, upper, scale, lookup, raw) ==
    orElse(parseIntRange(lower, upper, scale, raw), parseEnum(lookup, raw))

\* Command.formatParam: the results it can return
formatParam(c, raw) ==
    CASE c.ParamType = OnOff -> {formatOnOff(raw)}
      [] c.ParamType = OnOffToggle -> {formatOnOffToggle(raw)}
      [] c.ParamType = Enum -> formatEnum(c.Lookup, raw)
      [] c.ParamType = EnumToggle -> formatEnumToggle(c.Lookup, raw)
      [] c.ParamType = IntRange -> {formatIntRange(c.Lower, c.Upper, c.Scale, raw)}
      [] c.ParamType = IntRangeEnum -> formatIntRangeEnum(c.Lower, c.Upper, c.Scale, c.Lookup, raw)
      [] OTHER -> {fail(ErrUnsupported)}

\* Command.ParseParam
ParseParam(c, raw) ==
    CASE c.ParamType = OnOff -> parseOnOff(raw)
      [] c.ParamType = OnOffToggle -> parseOnOffToggle(raw)
      [] c.ParamType = Enum -> parseEnum(c.Lookup, raw)
      [] c.ParamType = EnumToggle -> parseEnumToggle(c.Lookup, raw)
      [] c.ParamType = IntRange -> parseIntRange(c.Lower, c.Upper, c.Scale, raw)
      [] c.ParamType = IntRangeEnum -> parseIntRangeEnum(c.Lower, c.Upper, c.Scale, c.Lookup, raw)
      [] OTHER -> fail(ErrUnsupported)

CommandCreateQueryParamOnly(c) == queryParam

\* Command.CreateQuery
CommandCreateQuery(c) == c.Group \o queryParam

\* Command.CreateCommand: the results it can return
CommandCreateCommand(c, param) ==
    {IF p.err # Nil THEN fail(p.err) ELSE ok(c.Group \o p.val) : p \in formatParam(c, param)}

\* SplitISCP: s[0:3] is out of range for a command of fewer than 3 bytes
SplitISCP(command) ==
    IF Len(command) < 3 THEN [group |-> "", param |-> "", err |-> Panic]
    ELSE [group |-> SubSeq(command, 1, 3), param |-> SubSeq(command, 4, Len(command)), err |-> Nil]

\* ------------------------------------------- command codec: command sets
\* Command{}: the zero value
zeroCommand ==
    [Name |-> "", Group |-> "", ParamType |-> "", Lookup |-> <<>>,
     Lower |-> 0, Upper |-> 0, Scale |-> 0]

\* a Command literal without Lookup and range
plainCommand(name, group, type) ==
    [zeroCommand EXCEPT !.Name = name, !.Group = group, !.ParamType = type]

\* a Command literal with a Lookup
enumCommand(name, group, type, lookup) ==
    [plainCommand(name, group, type) EXCEPT !.Lookup = lookup]

\* a Command literal with a range
rangeCommand(name, group, type, lower, upper, scale, lookup) ==
    [enumCommand(name, group, type, lookup) EXCEPT !.Lower = lower, !.Upper = upper, !.Scale = scale]

\* the list of definitions in BasicCommands()
commands ==
    << plainCommand("power", "PWR", OnOff),
       rangeCommand("volume", "MVL", IntRangeEnum, 0, 100, 2,
                    ("UP" :> "up") @@ ("DOWN" :> "down")),
       plainCommand("mute", "AMT", OnOffToggle),
       plainCommand("speaker-a", "SPA", OnOff),
       plainCommand("speaker-b", "SPB", OnOff),
       enumCommand("dimmer", "DIM", Enum,
                   ("00" :> "bright") @@ ("01" :> "dim") @@ ("02" :> "dark")
                   @@ ("03" :> "off") @@ ("08" :> "led-off")),
       enumCommand("display", "DIF", EnumToggle,
                   ("00" :> "default") @@ ("01" :> "listening")
                   @@ ("02" :> "source") @@ ("03" :> "mode-4")),
       enumCommand("input", "SLI", Enum,
                   ("00" :> "video-1") @@ ("01" :> "cbl-sat") @@ ("02" :> "game")
                   @@ ("03" :> "aux1") @@ ("20" :> "tv-tape")),
       enumCommand("listen-mode", "LMD", Enum,
                   ("00" :> "stereo") @@ ("STEREO" :> "stereo")
                   @@ ("01" :> "direct") @@ ("11" :> "pure")),
       enumCommand("update", "UPD", Enum,
                   ("00" :> "no-new-firmware") @@ ("01" :> "new-firmware")) >>

\* definitions that ReadCommands unmarshals from a commands file: a range
\* below zero, a range beyond 10^6, and a range with a lookup whose key is
\* hex digits and whose value is a number
loaded ==
    << rangeCommand("balance", "BLC", IntRange, -20, 20, 1, <<>>),
       rangeCommand("frequency", "TUN", IntRange, 0, 2000000, 0, <<>>),
       rangeCommand("preset", "PRS", IntRangeEnum, 0, 40, 1,
                    ("UP" :> "up") @@ ("0A" :> "30")) >>

\* every definition a Command method is called on
definitions == commands \o loaded

\* the index of the last definition of the list with the group / the name
lastWithGroup(cs, g) ==
    CHOOSE i \in DOMAIN cs : cs[i].Group = g /\ \A j \in DOMAIN cs : cs[j].Group = g => j <= i
lastWithName(cs, n) ==
    CHOOSE i \in DOMAIN cs : cs[i].Name = n /\ \A j \in DOMAIN cs : cs[j].Name = n => j <= i

NewBasicCommandSet(cs) ==
    [byGroup |-> [g \in {cs[i].Group : i \in DOMAIN cs} \ {""} |-> cs[lastWithGroup(cs, g)]],
     byName |-> [n \in {cs[i].Name : i \in DOMAIN cs} \ {""} |-> cs[lastWithName(cs, n)]]]

BasicCommands == NewBasicCommandSet(commands)

\* basicCommandSet.ReadCommand: (name, value, error), or the panic of SplitISCP
\* ReadCommand with the parameter parsed
readParsed(name, parsed) ==
    IF parsed.err # Nil THEN [name |-> "", value |-> "", err |-> parsed.err]
    ELSE [name |-> name, value |-> parsed.val, err |-> Nil]
\* ReadCommand after SplitISCP
readSplit(b, split) ==
    IF split.err # Nil THEN [name |-> "", value |-> "", err |-> split.err]
    ELSE IF split.group \notin DOMAIN b.byGroup
      THEN [name |-> "", value |-> "", err |-> ErrUnknownISCP]
    ELSE readParsed(b.byGroup[split.group].Name,
                    ParseParam(b.byGroup[split.group], split.param))
ReadCommand(b, command) == readSplit(b, SplitISCP(command))

ForName(b, name) ==
    IF name \in DOMAIN b.byName THEN [c |-> b.byName[name], err |-> Nil]
    ELSE [c |-> zeroCommand, err |-> ErrUnknownCommand]

\* basicCommandSet.CreateCommand: the results it can return
CreateCommand(b, name, param) ==
    IF ForName(b, name).err # Nil THEN {fail(ForName(b, name).err)}
    ELSE CommandCreateCommand(ForName(b, name).c, param)

\* basicCommandSet.CreateQuery
CreateQuery(b, name) ==
    IF ForName(b, name).err # Nil THEN fail(ForName(b, name).err)
    ELSE ok(CommandCreateQuery(ForName(b, name).c))

\* ------------------------------------------- command codec: the inputs
\* friendly values of the tests, with numbers of further types, texts in
\* further letter cases and values at and beyond the ranges of loaded
FriendlyValues ==
    {boolValue(TRUE), boolValue(FALSE)}
    \cup {intValue(i) : i \in {0, 1, 2, 23, 30, 105, -1, -16, -20, 1000000}}
    \cup {floatValue(t) : t \in {0, 10, 5, 25, 24, 21, 113, 230, 1001}}
    \cup {numberValue(t, n) : t \in {"int8", "int64", "uint8", "float32"}, n \in {0, 10}}
    \cup {stringValue(s) : s \in
            {"on", "ON", "On", "off", "OFF", "true", "TRUE", "tRuE", "false", "FALSE",
             "1", "01", "0", "00", "t", "+1", "foo", "X", "toggle", "TOGGLE", "tg", "",
             "up", "UP", "down", "stereo", "Stereo", "direct", "dim", "listening",
             "23", "23.0", "2.5", "2.4", "2.1", "11.3", "abc", "-16", "30"}}

\* payload tokens of the tests, with tokens in further spellings and at the
\* ranges of loaded
RawTokens ==
    {"00", "01", "02", "03", "08", "11", "20", "TG", "UP", "DOWN", "STEREO",
     "05", "2E", "5", "2e", "C8", "C9", "FF", "XX", "", "-A", "-15", "0A", "0F4240"}

\* names and groups, registered and not
Names == {commands[i].Name : i \in DOMAIN commands} \cup {"", "foo", "Power", "PWR"}
Groups == {commands[i].Group : i \in DOMAIN commands} \cup {"XXX", "pwr"}

\* commands to read: a group with a token, and texts of fewer than 3 bytes
ISCPCommands == {g \o r : g \in Groups, r \in RawTokens} \cup {"", "X", "PW"}

commandInput(kind, def, name, raw) ==
    [kind |-> kind, def |-> def, name |-> name, raw |-> raw]
FormatInputs ==
    {commandInput("friendly", d, "", v) : d \in DOMAIN definitions, v \in FriendlyValues}
TokenInputs ==
    {commandInput("token", d, "", stringValue(r)) : d \in DOMAIN definitions, r \in RawTokens}
CreateInputs ==
    {commandInput("create", 0, n, v) : n \in Names, v \in FriendlyValues}
ReadInputs ==
    {commandInput("read", 0, "", stringValue(c)) : c \in ISCPCommands}
QueryInputs ==
    {commandInput("query", 0, n, stringValue("")) : n \in Names}

\* ------------------------------------------- command codec: the calls
\* c.formatParam(v)
CallFormatParam ==
    /\ codecOp = "none"
    /\ codecIn.kind = "friendly"
    /\ codecOp' = "formatParam"
    /\ \E f \in formatParam(definitions[codecIn.def], codecIn.raw) : codecOut' = f
    /\ UNCHANGED <<clientVars, streamVars, intBits, codecIn>>

\* c.ParseParam(r)
CallParseParam ==
    /\ codecOp = "none"
    /\ codecIn.kind = "token"
    /\ codecOp' = "ParseParam"
    /\ codecOut' = ParseParam(definitions[codecIn.def], codecIn.raw.s)
    /\ UNCHANGED <<clientVars, streamVars, intBits, codecIn>>

\* ParseParam of what formatParam returned, when that is no error
parseFormatted(c, f) == IF f.err = Nil THEN ParseParam(c, f.val) ELSE fail(f.err)
\* formatParam of what ParseParam returned, when that is no error
formatParsed(c, p) ==
    IF p.err = Nil THEN formatParam(c, stringValue(p.val)) ELSE {fail(p.err)}

\* c.ParseParam(c.formatParam(v))
FormatThenParse ==
    /\ codecOp = "none"
    /\ codecIn.kind = "friendly"
    /\ codecOp' = "formatThenParse"
    /\ \E f \in formatParam(definitions[codecIn.def], codecIn.raw) :
         codecOut' = [formatted |-> f, parsed |-> parseFormatted(definitions[codecIn.def], f)]
    /\ UNCHANGED <<clientVars, streamVars, intBits, codecIn>>

\* c.formatParam(c.ParseParam(r))
ParseThenFormat ==
    /\ codecOp = "none"
    /\ codecIn.kind = "token"
    /\ codecOp' = "parseThenFormat"
    /\ \E f \in formatParsed(definitions[codecIn.def],
                             ParseParam(definitions[codecIn.def], codecIn.raw.s)) :
         codecOut' = [parsed |-> ParseParam(definitions[codecIn.def], codecIn.raw.s),
                      formatted |-> f]
    /\ UNCHANGED <<clientVars, streamVars, intBits, codecIn>>

\* BasicCommands().CreateCommand(name, v)
CallCreateCommand ==
    /\ codecOp = "none"
    /\ codecIn.kind = "create"
    /\ codecOp' = "CreateCommand"
    /\ \E r \in CreateCommand(BasicCommands, codecIn.name, codecIn.raw) : codecOut' = r
    /\ UNCHANGED <<clientVars, streamVars, intBits, codecIn>>

\* BasicCommands().ReadCommand(command)
CallReadCommand ==
    /\ codecOp = "none"
    /\ codecIn.kind = "read"
    /\ codecOp' = "ReadCommand"
    /\ codecOut' = ReadCommand(BasicCommands, codecIn.raw.s)
    /\ UNCHANGED <<clientVars, streamVars, intBits, codecIn>>

\* BasicCommands().CreateQuery(name)
CallCreateQuery ==
    /\ codecOp = "none"
    /\ codecIn.kind = "query"
    /\ codecOp' = "CreateQuery"
    /\ codecOut' = CreateQuery(BasicCommands, codecIn.name)
    /\ UNCHANGED <<clientVars, streamVars, intBits, codecIn>>

\* ------------------------------------- Device.SendCommand, Device.Query
\* the arguments of the SendCommand and Query calls of the application:
\* registered and unknown names, values the command accepts and rejects
FacadeNames == {"power", "volume", "foo"}
FacadeValues == {stringValue("on"), stringValue("abc"), intValue(23)}
FacadeInputs ==
    {commandInput("create", 0, n, v) : n \in FacadeNames, v \in FacadeValues}
    \cup {commandInput("query", 0, n, stringValue("")) : n \in FacadeNames}

\* (mutant) with autoConnect the Connect is requested before the error of
\* the codec is looked at
facadeCallConnectFirst(r) ==
    /\ callPc' = IF cfg.autoConnect THEN "connect"
                 ELSE IF r.err # Nil THEN "done" ELSE "wait"
    /\ callResult' = IF r.err # Nil THEN r.err ELSE None

\* SendCommand and Query after the codec has returned r: return its error,
\* or go on with SendISCP(command, 0), which with autoConnect begins with
\* client.Connect
facadeCall(r) ==
    /\ callPc' = IF r.err # Nil THEN "done"
                 ELSE IF cfg.autoConnect THEN "connect" ELSE "wait"
    /\ callResult' = IF r.err # Nil THEN r.err ELSE None

\* the application enters its next call, a SendCommand or a Query, with the
\* arguments in; the codec returns r
facadeEnter(op, in, r) ==
    /\ callPc \in {"idle", "done"}
    /\ callNo < MaxSends
    /\ callNo' = callNo + 1
    /\ callTimeout' = 0
    /\ callEntry' = deviceStatus
    /\ callCheck' = None
    /\ codecIn' = in
    /\ codecOp' = op
    /\ codecOut' = r
    /\ facadeCall(r)
    /\ UNCHANGED <<streamVars, lifeVars, intBits, cfg, engineVars, stopReturned, starterPc,
                   stateVars, dials, readerPc, sockVars, recvVars, sendVars, timers>>

\* Device.SendCommand(name, param)
SendCommand ==
    \E in \in FacadeInputs :
        /\ in.kind = "create"
        /\ \E r \in CreateCommand(BasicCommands, in.name, in.raw) :
              facadeEnter("SendCommand", in, r)

\* Device.Query(name)
Query ==
    \E in \in FacadeInputs :
        /\ in.kind = "query"
        /\ facadeEnter("Query", in, CreateQuery(BasicCommands, in.name))

\* ------------------------------------------- received payloads
\* a payload on its way from readLoop to the callback: ParseISCP(payload) in
\* readLoop, which drops the payload on an error and else sends the command
\* to c.received; the loop's doReceive passes it to Device.handleReceived,
\* whose ReadCommand begins with SplitISCP. A panic there is not recovered
\* and ends the program.
handleReceived ==
    /\ codecOp = "none"
    /\ codecIn.kind = "received"
    /\ codecOp' = "handleReceived"
    /\ codecOut' = [command |-> ParseISCP(codecIn.data).command,
                    err |-> ParseISCP(codecIn.data).err,
                    split |-> IF ParseISCP(codecIn.data).err # Nil THEN None
                              ELSE SplitISCP(ParseISCP(codecIn.data).command).err]
    /\ UNCHANGED <<clientVars, streamVars, intBits, codecIn>>

\* ------------------------------------------------------------------ Next
\* the client's connection handling: Start/Stop, Connect/Disconnect
\* requests, the dial, the receiver closing, the read task ending
ClientNext ==
    \/ DeviceStart
    \/ DeviceStop
    \/ StartConnect
    \/ ClientConnect
    \/ ClientDisconnect
    \/ DoConnectMark
    \/ DialFailure
    \/ DialSuccess
    \/ DoDisconnectMark
    \/ DoDisconnectClose
    \/ \E c \in Conns : ServerClose(c)
    \/ \E c \in Conns : ReadEOF(c)
    \/ \E c \in Conns : ReadChange(c)

\* the Device's connection callbacks and its reconnect goroutines
CallbackNext ==
    \/ TimerConnect
    \/ \E s \in ConnectionState : connectionChanged(s)

ConnNext == ClientNext \/ CallbackNext

\* outbound: the SendISCP calls and the loop's doSend
SendNext ==
    \/ doSend
    \/ \E t \in Timeouts : SendISCP(t)
    \/ Send
    \/ SendEnqueue
    \/ SendReply
    \/ SendTimeout

\* inbound: frames from the receiver, the read task, the loop's doReceive
RecvNext ==
    \/ doReceive
    \/ \E c \in Conns : ServerSend(c)
    \/ \E c \in Conns : ReadFrame(c)

Next == ConnNext \/ SendNext \/ CallConnect \/ RecvNext

Spec == Init /\ [][Next]_vars

\* ----------------------------------------------------- specifications
\* Connection handling alone, for a device that sends and receives nothing:
\* AllowReconnect and the OnDisconnected callback vary.
ConnConfigs == {c \in Configs : ~c.autoConnect /\ ~c.onConnect}
InitConn == InitWith(ConnConfigs)
SpecConn == InitConn /\ [][ConnNext]_vars

\* The client's send path: connection handling and SendISCP calls for a
\* device without AutoConnect, AllowReconnect and callbacks, where SendISCP
\* is client.Send.
PlainConfigs ==
    {c \in Configs : ~c.autoConnect /\ ~c.allowReconnect
                       /\ ~c.onConnect /\ ~c.onDisconnect}
InitPlain == InitWith(PlainConfigs)
SpecSend == InitPlain /\ [][ClientNext \/ SendNext]_vars

\* The client's receive path: connection handling and inbound frames for the
\* same device, its goroutines scheduled fairly: the loop's select takes a
\* ready case, a dial ends, doDisconnect runs to its end, the read task
\* goes on reading.
RecvFair ==
    /\ WF_vars(DoConnectMark)
    /\ WF_vars(DialFailure \/ DialSuccess)
    /\ WF_vars(DoDisconnectMark)
    /\ WF_vars(DoDisconnectClose)
    /\ WF_vars(doReceive)
    /\ WF_vars(\E c \in Conns : ReadFrame(c))
SpecRecv == InitPlain /\ [][ClientNext \/ RecvNext]_vars /\ RecvFair

\* A device with AllowReconnect that the application starts and then leaves
\* alone (no Stop, no direct Connect/Disconnect), while the receiver sends
\* frames and closes connections. The goroutines of the program are
\* scheduled fairly: the loop's select takes a ready case, a dial ends, the
\* read task notices EOF, callback and reconnect goroutines run.
ReconnectConfigs == {c \in Configs : c.allowReconnect /\ ~c.autoConnect /\ ~c.onConnect}
InitReconnect == InitWith(ReconnectConfigs)
ReconnectNext ==
    \/ DeviceStart
    \/ StartConnect
    \/ TimerConnect
    \/ DoConnectMark
    \/ DialFailure
    \/ DialSuccess
    \/ doReceive
    \/ \E c \in Conns : ServerSend(c)
    \/ \E c \in Conns : ServerClose(c)
    \/ \E c \in Conns : ReadFrame(c)
    \/ \E c \in Conns : ReadEOF(c)
    \/ \E c \in Conns : ReadChange(c)
    \/ \E s \in ConnectionState : connectionChanged(s)
ReconnectFair ==
    /\ WF_vars(StartConnect)
    /\ WF_vars(TimerConnect)
    /\ WF_vars(DoConnectMark)
    /\ WF_vars(DialFailure \/ DialSuccess)
    /\ WF_vars(doReceive)
    /\ WF_vars(\E c \in Conns : ReadFrame(c))
    /\ WF_vars(\E c \in Conns : ReadEOF(c))
    /\ WF_vars(\E c \in Conns : ReadChange(c))
    /\ WF_vars(\E s \in ConnectionState : connectionChanged(s))
SpecReconnect == InitReconnect /\ [][ReconnectNext]_vars /\ ReconnectFair

\* The Device facade: every configuration of AutoConnect, AllowReconnect and
\* the OnDisconnected callback, connection handling with callbacks and
\* reconnects, and an application that makes one SendISCP call, at any time
\* before Start, while started, or after Stop.
DeviceConfigs == {c \in Configs : ~c.onConnect}
InitDevice == InitWith(DeviceConfigs)
OneCallNext ==
    \/ doSend
    \/ CallConnect
    \/ \E t \in Timeouts : callNo = 0 /\ SendISCP(t)
    \/ Send
    \/ SendEnqueue
    \/ SendReply
    \/ SendTimeout
SpecDevice == InitDevice /\ [][ConnNext \/ OneCallNext]_vars

\* The frame codec on its own: one argument out of the inputs, a build with
\* int of 32 or of 64 bits, and one call of a codec function on it; the
\* client is not running.
CodecNext ==
    \/ CallRaw
    \/ EncodeDecode
    \/ CallParseISCP
    \/ CallParseHeader
    \/ CallParseEISCP
    \/ handleReceived
InitCodec ==
    /\ InitClient(PlainConfigs)
    /\ intBits \in {32, 64}
    /\ codecIn \in CommandInputs \cup PayloadInputs \cup BufferInputs \cup ReceivedInputs
    /\ codecOp = "none"
    /\ codecOut = <<>>
    /\ InitNoReader
SpecCodec == InitCodec /\ [][CodecNext]_vars

\* the command codec: one call on one input
CommandNext ==
    \/ CallFormatParam
    \/ CallParseParam
    \/ FormatThenParse
    \/ ParseThenFormat
    \/ CallCreateCommand
    \/ CallReadCommand
    \/ CallCreateQuery
InitCommands ==
    /\ InitClient(PlainConfigs)
    /\ intBits = 64
    /\ codecIn \in FormatInputs \cup TokenInputs \cup CreateInputs \cup ReadInputs \cup QueryInputs
    /\ codecOp = "none"
    /\ codecOut = <<>>
    /\ InitNoReader
SpecCommands == InitCommands /\ [][CommandNext]_vars

\* readLoop on the byte stream of a connection
StreamNext == ReadHeader \/ ReadPayload
InitStream ==
    /\ InitClient(PlainConfigs)
    /\ intBits \in {32, 64}
    /\ codecIn = <<>>
    /\ codecOp = "none"
    /\ codecOut = <<>>
    /\ InitReader(Streams, "header")
SpecStream == InitStream /\ [][StreamNext]_vars

\* Connection handling with the goroutines of the program scheduled fairly:
\* the loop runs a handler to its end, a dial ends, each read task goes on
\* with its read and with its deferred function.
ConnFair ==
    /\ WF_vars(DoConnectMark)
    /\ WF_vars(DialFailure \/ DialSuccess)
    /\ WF_vars(DoDisconnectMark)
    /\ WF_vars(DoDisconnectClose)
    /\ \A c \in Conns : WF_vars(ReadEOF(c))
    /\ \A c \in Conns : WF_vars(ReadChange(c))
SpecConnFair == InitConn /\ [][ConnNext]_vars /\ ConnFair

\* A device whose message handler answers every message with a SendISCP
\* call, with and without AutoConnect: the application starts it and makes
\* SendISCP calls of its own, the receiver sends frames and closes the
\* connection.
HandlerConfigs ==
    {c \in Configs : ~c.allowReconnect /\ ~c.onConnect /\ ~c.onDisconnect}
InitHandler == InitWith(HandlerConfigs)
HandlerNext ==
    \/ DeviceStart
    \/ StartConnect
    \/ DoConnectMark
    \/ DialFailure
    \/ DialSuccess
    \/ \E c \in Conns : ServerSend(c)
    \/ \E c \in Conns : ServerClose(c)
    \/ \E c \in Conns : ReadFrame(c)
    \/ \E c \in Conns : ReadEOF(c)
    \/ \E c \in Conns : ReadChange(c)
    \/ HandlerSendISCP
    \/ CallConnect
SpecHandler == InitHandler /\ [][HandlerNext \/ SendNext]_vars

\* The lifecycle of a client: Device.Start, further client.Start calls, Stop
\* calls at any time (before Start, while started, after the loop has
\* returned), Connect and Disconnect requests. Nothing is sent or received,
\* so that the cases c.received and c.send of a select are never ready.
LifecycleNext ==
    \/ DeviceStart
    \/ StartConnect
    \/ ClientConnect
    \/ ClientDisconnect
    \/ DoConnectMark
    \/ DialFailure
    \/ DialSuccess
    \/ DoDisconnectMark
    \/ DoDisconnectClose
    \/ \E c \in Conns : ServerClose(c)
    \/ \E c \in Conns : ReadEOF(c)
    \/ \E c \in Conns : ReadChange(c)
    \/ ClientStart
    \/ StopCall
    \/ StopTaken
    \/ LoopDone
    \/ LoopDisconnect
    \/ LoopConnect
SpecLifecycle == InitPlain /\ [][LifecycleNext]_vars

\* The facade's SendCommand and Query: a device with or without AutoConnect
\* that the application starts and stops and on which it makes these calls
\* with valid and invalid arguments.
FacadeNext ==
    \/ DeviceStart
    \/ DeviceStop
    \/ StartConnect
    \/ DoConnectMark
    \/ DialFailure
    \/ DialSuccess
    \/ DoDisconnectMark
    \/ DoDisconnectClose
    \/ SendCommand
    \/ Query
    \/ CallConnect
    \/ Send
    \/ SendEnqueue
    \/ doSend
SpecFacade == InitHandler /\ [][FacadeNext]_vars

\* readLoop on a connection whose frames arrive whole and may be malformed
InitMalformed ==
    /\ InitClient(PlainConfigs)
    /\ intBits \in {32, 64}
    /\ codecIn = <<>>
    /\ codecOp = "none"
    /\ codecOut = <<>>
    /\ InitFrames
SpecMalformed == InitMalformed /\ [][StreamNext]_vars

\* ------------------------------------------------------------- claims
\* the transitions of the connection state machine (spec.md, 3 (c) and 4.4)
AllowedTransitions ==
    { <<Disconnected, Connecting>>, <<Connecting, Connected>>,
      <<Connecting, Disconnected>>, <<Connected, Disconnecting>>,
      <<Connected, Disconnected>>, <<Disconnecting, Disconnected>> }

\* C1: every state change the client performs (every changeState call) is
\* one of the six transitions of the cycle; no other transition and no
\* self-transition is performed.
C1_Transitions == lastChange = <<>> \/ lastChange \in AllowedTransitions


\* the receiver has closed the connection the client holds as established,
\* and the dial budget of the model leaves room for a reconnect
serverClosedEstablished ==
    /\ state = Connected
    /\ connStatus[conn] = "peerClosed"
    /\ dials < MaxDials

\* C2: with AllowReconnect, whenever the receiver closes an established
\* connection a reconnect follows: the engine eventually re-enters
\* Connecting, whether or not an OnDisconnected callback is set.
C2_Reconnects ==
    (cfg.allowReconnect /\ serverClosedEstablished) ~> (state = Connecting)


\* the tasks whose frame has been written
writtenTasks == {written[i] : i \in DOMAIN written}
\* the tasks waiting in the send channel
queuedTasks == {send[i] : i \in DOMAIN send}

C4_SendResult ==
    /\ (callPc = "done" /\ callTimeout > 0) =>
          /\ callResult \in {Nil, ErrWrite, ErrNotConnected, ErrTimeout}
          /\ callResult = Nil => callNo \in writtenTasks
    /\ \A i, j \in DOMAIN written : written[i] = written[j] => i = j

\* a Send timed out and its frame was written all the same
C4_Witness ==
    /\ callPc = "done"
    /\ callTimeout > 0
    /\ callResult = ErrTimeout
    /\ callNo \in writtenTasks

\* C5 as claimed: a Send with timeout <= 0 never blocks; its channel send
\* c.send <- task can proceed in every state.
C5_NeverBlocks ==
    (callPc = "enqueue" /\ callTimeout <= 0) => Len(send) < MaxSendQueue

\* C7: frames are written in the order in which the single caller made its
\* Send calls (call numbers increase along written).
C7_SendOrder ==
    \A i, j \in DOMAIN written : i < j => written[i] < written[j]

\* the frames of two calls were written while a third task waits
C7_Witness ==
    /\ Len(written) >= 2
    /\ Len(send) >= 1


\* the frames the receiver can send: <<socket, number>>, numbered in the
\* order of sending
Frames == Conns \X (1..MaxFrames)
\* frames still on a socket, and frames in the received channel
onSockets == UNION {{sockIn[c][i] : i \in DOMAIN sockIn[c]} : c \in Conns}
inReceived == {received[i] : i \in DOMAIN received}
handledFrames == {handled[i] : i \in DOMAIN handled}

\* no frame is lost or passed twice: every frame sent is still on its
\* socket, in the received channel, or has been handled, exactly one of
\* these and once; frames of one socket are handled in their order
deliveredOnceInOrder ==
    /\ Cardinality(onSockets) + Len(received) + Len(handled) = framesSent
    /\ Cardinality(onSockets \cup inReceived \cup handledFrames) = framesSent
    /\ \A i, j \in DOMAIN handled :
          (i < j /\ handled[i][1] = handled[j][1]) => handled[i][2] < handled[j][2]

dialHasFailed ==
    \E c \in 1..dials :
        connStatus[c] = "none" /\ ~(c = dials /\ enginePc \in {"dialing"})

\* the call is inside a channel send that cannot proceed: client.Connect
\* with no loop in its select, or c.send <- task with the channel full
callBlocked ==
    \/ callPc = "connect" /\ ~inSelect
    \/ callPc = "enqueue" /\ Len(send) >= MaxSendQueue

\* C8 as claimed: with AutoConnect, a SendISCP made on a started device that
\* is Disconnected returns an error only if connecting fails.
C8_AutoConnect ==
    (cfg.autoConnect /\ callEntry = "disconnected" /\ callPc = "done"
        /\ callResult # Nil) => dialHasFailed

\* C9 as claimed: SendISCP on a device that was never started or has been
\* stopped returns an error, does not block and writes nothing, with
\* AutoConnect false or true.
C9_NotStarted ==
    callEntry \in {"notstarted", "stopped"} =>
        /\ ~callBlocked
        /\ callPc = "done" => callResult \in {ErrNotConnected, ErrWrite, ErrTimeout}
        /\ callNo \notin writtenTasks

\* C10 as claimed: with AllowReconnect, a command issued while the device is
\* disconnected is queued: the call does not fail for being not connected.
C10_Queued ==
    (cfg.allowReconnect /\ callEntry = "disconnected") =>
        callResult # ErrNotConnected

\* C11 as claimed: after an explicit Disconnect or Stop (the last state
\* change is the Disconnecting -> Disconnected of doDisconnect, and nobody
\* has asked for a connect since) no reconnect is pending: a reconnect timer
\* pending before was cancelled and the transition armed no new one.
C11_NoReconnect ==
    lastChange = <<Disconnecting, Disconnected>> => timers = 0

\* C12 as claimed: the callback of a state change has been invoked before
\* the next state change is made: a callback not yet invoked is the one of
\* the present state, and there is at most one.
C12_CallbackOrder ==
    \A s \in ConnectionState :
        cbPending[s] > 0 => (state = s /\ cbPending[s] = 1)

\* C13 as claimed: a step of doSend whose conn.Write fails (the state is
\* Connected and no frame is written) leaves the engine Disconnected.
C13_WriteErrorDisconnects ==
    [][(doSend /\ isState({Connected}) /\ written' = written)
          => state' = Disconnected]_vars

\* the client has not closed its socket c
heldOpen(c) == connStatus[c] \in {"open", "peerClosed"}

\* C14 as claimed: while the state is Disconnected the client holds no open
\* socket, and it never holds more than one.
C14_NoSocketWhenDisconnected ==
    /\ state = Disconnected => \A c \in Conns : ~heldOpen(c)
    /\ Cardinality({c \in Conns : heldOpen(c)}) <= 1

\* the loop takes a connect request, a disconnect request (Stop included)
connectTaken == StartConnect \/ CallConnect \/ TimerConnect \/ ClientConnect
disconnectTaken == ClientDisconnect \/ DeviceStop

\* C15: a connect request taken while Connecting or Connected, and a
\* disconnect request taken while Disconnected or Disconnecting, changes
\* neither state nor socket, starts no callback, and the handler returns
\* without a dial or a close.
C15_Idempotent ==
    [][(\/ connectTaken /\ isState({Connecting, Connected})
        \/ disconnectTaken /\ isState({Disconnected, Disconnecting}))
          => /\ UNCHANGED <<state, conn, lastChange, cbPending, dials,
                            connStatus, readerPc>>
             /\ enginePc' \in {"select", "stopped"}]_vars

\* the connect requests of Start and of a SendISCP with AutoConnect have
\* both been taken and one dial was made: one of them was a no-op
C15_Witness ==
    /\ starterPc = "done"
    /\ callPc = "wait"
    /\ dials = 1
    /\ state = Connected
    /\ enginePc = "select"

\* C16 as claimed: once Stop has returned the state is Disconnected, no
\* socket is open, and neither the loop nor a read task runs.
C16_StopComplete ==
    stopReturned =>
        /\ state = Disconnected
        /\ enginePc = "stopped"
        /\ \A c \in Conns : ~heldOpen(c)
        /\ \A c \in Conns : readerPc[c] \in {"none", "done"}

\* the call returned this command and no error
decoded(c) == codecOut = [command |-> c, err |-> Nil]

\* C17 as claimed: for every command c, decoding the bytes of the encoded
\* frame yields c: ParseEISCP(NewEISCPMessage(c).Raw()).Command() = c.
C17_RoundTripAll ==
    codecOp = "EncodeDecode" => decoded(codecIn.command)

\* C17 (amended): the same for every command c whose last byte is not 0x1A.
C17_RoundTrip ==
    (codecOp = "EncodeDecode" /\ codecIn.command[Len(codecIn.command)] # 26)
        => decoded(codecIn.command)

\* a command ending in CR went through encoder and decoder unchanged
C17_Witness ==
    /\ codecOp = "EncodeDecode"
    /\ Len(codecIn.command) = 5
    /\ codecIn.command[5] = 13
    /\ decoded(codecIn.command)

\* the command is made of letters and digits only
isPrintable(c) == \A i \in DOMAIN c : c[i] \in Printable

\* C18 as claimed: for a command c of letters and digits and each terminator
\* CR LF, CR, LF or none, with or without a byte 0x1A after the terminator,
\* ParseISCP("!1" + c + terminator [+ 0x1A]) succeeds and returns exactly c.
C18_Terminators ==
    (codecOp = "ParseISCP" /\ isPrintable(codecIn.command))
        => decoded(codecIn.command)

hasLengths == Len(codecIn.data) >= 12
\* the header and payload length the buffer declares, as unsigned values
declaredHeader == Uint32(SubSeq(codecIn.data, 5, 8))
declaredPayload == Uint32(SubSeq(codecIn.data, 9, 12))
\* the buffer is shorter than 12 bytes, lacks the magic, or is shorter than
\* the header length it declares
badHeader ==
    \/ ~hasLengths
    \/ SubSeq(codecIn.data, 1, 4) # <<73, 83, 67, 80>>
    \/ declaredHeader[1] > 0
    \/ Len(codecIn.data) < declaredHeader[2]
\* the buffer is shorter than declared header plus declared payload
shortMessage ==
    /\ hasLengths
    /\ \/ declaredHeader[1] + declaredPayload[1] > 0
       \/ Len(codecIn.data) < declaredHeader[2] + declaredPayload[2]

\* C20 as claimed: ParseHeader and ParseEISCP return an error (and do not
\* panic on an index out of range) for every buffer shorter than 12 bytes,
\* without the magic, or shorter than its declared header length, and
\* ParseEISCP also for every buffer shorter than declared header plus
\* declared payload length.
C20_DecodeErrors ==
    /\ (codecOp \in {"ParseHeader", "ParseEISCP"} /\ badHeader)
          => codecOut.err \in DecodeErrors
    /\ (codecOp = "ParseEISCP" /\ shortMessage)
          => codecOut.err \in DecodeErrors


\* ------------------------------------------------ claims: command codec
\* the definition and the values of the call
callDef == definitions[codecIn.def]
friendly == codecIn.raw
token == codecIn.raw.s

\* the value is a number / a text that reads as a number
isNumber(v) == v.type \in IntTypes \cup FloatTypes
numericText(v) == v.type = "string" /\ ParseFloat(v.s).err = Nil
\* the number of the value, in tenths
numberOf(v) == IF isNumber(v) THEN v.n ELSE ParseFloat(v.s).val

\* the decimal text of a number in tenths, without a trailing ".0"
decimalText(t) ==
    (IF t < 0 THEN "-" ELSE "")
    \o digitsOf((IF t < 0 THEN 0 - t ELSE t) \div 10, 10)
    \o (IF t % 10 = 0 THEN "" ELSE "." \o digitsOf((IF t < 0 THEN 0 - t ELSE t) % 10, 10))

\* the value means "toggle" / "on"
meansToggle(v) == v.type = "string" /\ ToLower(v.s) \in {"", "toggle", "tg"}
meansOn(v) ==
    \/ v.type = "bool" /\ v.b
    \/ isNumber(v) /\ v.n = 10
    \/ v.type = "string" /\ (ToLower(v.s) \in {"on", "true", "t"} \/ (Atoi(v.s).err = Nil /\ Atoi(v.s).val = 1))
onOrOff(v) == IF meansOn(v) THEN "on" ELSE "off"
lowered(v) == IF v.type = "string" THEN ToLower(v.s) ELSE decimalText(numberOf(v))

\* the canonical friendly form of v under the kind of the definition
canonical(c, v) ==
    CASE c.ParamType = OnOff -> onOrOff(v)
      [] c.ParamType = OnOffToggle -> IF meansToggle(v) THEN "toggle" ELSE onOrOff(v)
      [] c.ParamType = Enum -> lowered(v)
      [] c.ParamType = EnumToggle -> IF meansToggle(v) THEN "toggle" ELSE lowered(v)
      [] c.ParamType = IntRange -> decimalText(numberOf(v))
      [] c.ParamType = IntRangeEnum ->
           IF isNumber(v) \/ numericText(v) THEN decimalText(numberOf(v)) ELSE lowered(v)

\* C21: for every definition and every friendly value v that formatParam
\* accepts, ParseParam(formatParam(v)) is the canonical friendly form of v.
C21_FormatParse ==
    (codecOp = "formatThenParse" /\ codecOut.formatted.err = Nil)
      => (codecOut.parsed.err = Nil /\ codecOut.parsed.val = canonical(callDef, friendly))

\* the token is read by the range of the definition
readAsNumber(c, r) ==
    c.ParamType \in {IntRange, IntRangeEnum} /\ parseIntRange(c.Lower, c.Upper, c.Scale, r).err = Nil

\* C22: for every definition and every raw token r that ParseParam accepts,
\* formatParam(ParseParam(r)) is r; for a token read by an IntRange it is r up
\* to hex normalisation (the same number).
C22_ParseFormat ==
    (codecOp = "parseThenFormat" /\ codecOut.parsed.err = Nil)
      => /\ codecOut.formatted.err = Nil
         /\ IF readAsNumber(callDef, token)
              THEN ParseInt(codecOut.formatted.val, 16) = ParseInt(token, 16)
              ELSE codecOut.formatted.val = token

\* the text is upper-case hex digits, an even number of them and at least two
RECURSIVE isUpperHex(_)
isUpperHex(s) ==
    s = "" \/ (indexOf(charAt(s, 1), hexDigits) > 0 /\ isUpperHex(SubSeq(s, 2, Len(s))))
evenHex(s) == Len(s) >= 2 /\ Len(s) % 2 = 0 /\ isUpperHex(s)

\* the scale, 0 taken as 1
scaleOf(c) == IF c.Scale = 0 THEN 1 ELSE c.Scale

\* C23: IntRange format accepts a number v iff lower <= v <= upper and v*s is
\* an integer, and then returns v*s as upper-case hex of an even number of
\* digits; 0..100 with scale 2 turns 23 into "2E" and 2.5 into "05" and
\* rejects 11.3, 100.1, 105 and -1.
C23_FormatIntRange ==
    (codecOp = "formatParam" /\ callDef.ParamType \in {IntRange, IntRangeEnum} /\ isNumber(friendly))
      => /\ codecOut.err = Nil
              <=> /\ callDef.Lower * 10 <= friendly.n
                  /\ friendly.n <= callDef.Upper * 10
                  /\ (friendly.n * scaleOf(callDef)) % 10 = 0
         /\ codecOut.err = Nil
              => /\ evenHex(codecOut.val)
                 /\ digitsValue(codecOut.val, 16) * 10 = friendly.n * scaleOf(callDef)

\* C24: formatting rounds the scaled product: with 0..100 and scale 2,
\* CreateCommand("2.4") is MVL05 and CreateCommand("2.1") is MVL04.
C24_Rounds ==
    (codecOp = "CreateCommand" /\ codecIn.name = "volume")
      => /\ friendly = stringValue("2.4") => codecOut = ok("MVL05")
         /\ friendly = stringValue("2.1") => codecOut = ok("MVL04")

\* the quotient n / scale of a hex token, in tenths
quotient(c, r) == (ParseInt(r, 16).val * 10) \div scaleOf(c)
\* the call is ParseParam of a token that no lookup of the definition holds
parsesRange ==
    /\ codecOp = "ParseParam"
    /\ callDef.ParamType \in {IntRange, IntRangeEnum}
    /\ token \notin DOMAIN callDef.Lookup
\* the call succeeds iff the token is hex and its quotient is in the range
inRangeOnly ==
    codecOut.err = Nil
      <=> /\ ParseInt(token, 16).err = Nil
          /\ callDef.Lower * 10 <= quotient(callDef, token)
          /\ quotient(callDef, token) <= callDef.Upper * 10

listedOn(v) ==
    \/ v.type = "bool" /\ v.b
    \/ isNumber(v) /\ v.n = 10
    \/ v.type = "string" /\ ToLower(v.s) \in {"on", "true", "1", "01"}
listedOff(v) ==
    \/ v.type = "bool" /\ ~v.b
    \/ isNumber(v) /\ v.n = 0
    \/ v.type = "string" /\ ToLower(v.s) \in {"off", "false", "0", "00"}

\* C26: OnOff format turns true, the number 1 of any numeric type and
\* on/true/1/01 in any letter case into "01", false, the number 0 and
\* off/false/0/00 into "00", and rejects every other input; OnOff parse turns
\* "01" into "on", "00" into "off" and rejects everything else.
C26_OnOff ==
    /\ (codecOp = "formatParam" /\ callDef.ParamType = OnOff)
         => codecOut = IF listedOn(friendly) THEN ok("01")
                       ELSE IF listedOff(friendly) THEN ok("00")
                       ELSE fail(codecOut.err)
    /\ (codecOp = "formatParam" /\ callDef.ParamType = OnOff
          /\ ~listedOn(friendly) /\ ~listedOff(friendly))
         => codecOut.err # Nil
    /\ (codecOp = "ParseParam" /\ callDef.ParamType = OnOff)
         => codecOut = IF token = "01" THEN ok("on")
                       ELSE IF token = "00" THEN ok("off")
                       ELSE fail(ErrInvalidParameter)

\* the result of the first sub-codec when it succeeds, else of the second
firstThen(first, second) == IF \E r \in first : r.err = Nil THEN first ELSE second

\* C27: a composite kind returns the result of its first sub-codec whenever
\* that succeeds and else the result of its second: Toggle before OnOff and
\* Enum, IntRange before Enum; volume "up" is MVLUP, MVL "DOWN" is "down",
\* mute "toggle" is AMTTG.
C27_Composite ==
    /\ (codecOp = "formatParam" /\ callDef.ParamType = OnOffToggle)
         => codecOut \in firstThen({formatToggle(friendly)}, {formatOnOff(friendly)})
    /\ (codecOp = "formatParam" /\ callDef.ParamType = EnumToggle)
         => codecOut \in firstThen({formatToggle(friendly)}, formatEnum(callDef.Lookup, friendly))
    /\ (codecOp = "formatParam" /\ callDef.ParamType = IntRangeEnum)
         => codecOut \in firstThen({formatIntRange(callDef.Lower, callDef.Upper, callDef.Scale, friendly)},
                                   formatEnum(callDef.Lookup, friendly))
    /\ (codecOp = "ParseParam" /\ callDef.ParamType = OnOffToggle)
         => codecOut \in firstThen({parseToggle(token)}, {parseOnOff(token)})
    /\ (codecOp = "ParseParam" /\ callDef.ParamType = EnumToggle)
         => codecOut \in firstThen({parseToggle(token)}, {parseEnum(callDef.Lookup, token)})
    /\ (codecOp = "ParseParam" /\ callDef.ParamType = IntRangeEnum)
         => codecOut \in firstThen({parseIntRange(callDef.Lower, callDef.Upper, callDef.Scale, token)},
                                   {parseEnum(callDef.Lookup, token)})
    /\ (codecOp = "CreateCommand" /\ codecIn.name = "volume" /\ friendly = stringValue("up"))
         => codecOut = ok("MVLUP")
    /\ (codecOp = "CreateCommand" /\ codecIn.name = "mute" /\ friendly = stringValue("toggle"))
         => codecOut = ok("AMTTG")
    /\ (codecOp = "ReadCommand" /\ token = "MVLDOWN")
         => codecOut = [name |-> "volume", value |-> "down", err |-> Nil]
\* both sub-codecs of a composite kind accept the value and the first one wins
C27_Witness ==
    /\ codecOp = "formatParam"
    /\ callDef.ParamType = IntRangeEnum
    /\ formatIntRange(callDef.Lower, callDef.Upper, callDef.Scale, friendly).err = Nil
    /\ \E r \in formatEnum(callDef.Lookup, friendly) : r.err = Nil /\ r # codecOut
    /\ codecOut = ok("1E")

\* the names and groups of the list of BasicCommands
registeredName(n) == \E i \in DOMAIN commands : commands[i].Name = n
registeredGroup(g) == \E i \in DOMAIN commands : commands[i].Group = g

\* C28: CreateCommand returns an error for an unknown name and for an invalid
\* value, ReadCommand for an unknown group and for an unparsable parameter;
\* with an error the command, the name and the value are empty; on success
\* ReadCommand returns the name of the group and the parsed value.
C28_Errors ==
    /\ codecOp = "CreateCommand"
         => /\ ~registeredName(codecIn.name) => codecOut.err = ErrUnknownCommand
            /\ codecOut.err # Nil => codecOut.val = ""
            /\ codecOut.err = Nil =>
                 \E i \in DOMAIN commands :
                    /\ commands[i].Name = codecIn.name
                    /\ \E p \in formatParam(commands[i], friendly) :
                          p.err = Nil /\ codecOut.val = commands[i].Group \o p.val
    /\ codecOp = "ReadCommand"
         => /\ ~registeredGroup(SubSeq(token, 1, IF Len(token) < 3 THEN Len(token) ELSE 3))
                 => codecOut.err = ErrUnknownISCP
            /\ codecOut.err \in {Nil, ErrUnknownISCP, ErrInvalidParameter, ErrSyntax}
            /\ codecOut.err # Nil => (codecOut.name = "" /\ codecOut.value = "")
            /\ codecOut.err = Nil =>
                 \E i \in DOMAIN commands :
                    /\ commands[i].Group = SubSeq(token, 1, 3)
                    /\ codecOut.name = commands[i].Name
                    /\ ParseParam(commands[i], SubSeq(token, 4, Len(token))) = ok(codecOut.value)

\* C29: CreateQuery(name) is the group registered for the name followed by
\* "QSTN", and an error for a name that is not registered.
C29_Query ==
    codecOp = "CreateQuery"
      => IF registeredName(codecIn.name)
           THEN \E i \in DOMAIN commands :
                   commands[i].Name = codecIn.name /\ codecOut = ok(commands[i].Group \o "QSTN")
           ELSE codecOut.err # Nil /\ codecOut.val = ""
C29_Witness ==
    /\ codecOp = "CreateQuery"
    /\ codecIn.name = "volume"
    /\ codecOut = ok("MVLQSTN")

\* ------------------------------------------------- claims: readLoop
\* what a decoder that takes one whole frame at a time delivers
frameAtATime == [i \in 1..Len(sent) |-> ParseEISCP(Raw(sent[i])).command]
isPrefix(s, t) == Len(s) <= Len(t) /\ s = SubSeq(t, 1, Len(s))

\* C30: however TCP splits a valid stream of frames into reads, readLoop
\* delivers exactly the commands that a frame-at-a-time decoder delivers.
C30_StreamDecoding ==
    /\ isPrefix(delivered, frameAtATime)
    /\ loopPc = "returned" => delivered = frameAtATime

\* ------------------------------------------- claims: received commands
\* C31: every command that ParseISCP accepts and readLoop hands on has at
\* least three characters, so that SplitISCP splits it into a group of three
\* and the rest and the handling of a received frame never fails.
C31_AcceptedSplits ==
    (codecOp = "handleReceived" /\ codecOut.err = Nil)
        => Len(codecOut.command) >= 3 /\ codecOut.split = Nil

\* C32: a malformed frame is dropped on its own: readLoop goes on (it neither
\* ends before the receiver closes the connection nor panics) and delivers
\* the command of every well-formed frame of the stream, in order.
C32_MalformedIsolated ==
    /\ loopPc # "panic"
    /\ isPrefix(delivered, sent)
    /\ loopPc = "returned" => delivered = sent

\* ------------------------------------------------ claims: the read tasks
\* the read task of connection c has been started and has not returned
readerAlive(c) == readerPc[c] \in {"run", "change"}

\* C33 as claimed: once the socket of a connection is closed, by the
\* receiver or by doDisconnect, its read task ends (so that the read tasks
\* of earlier connections are gone and at most one is alive).
C33_ReaderEnds ==
    \A c \in Conns :
        [](connStatus[c] \in {"peerClosed", "closed"} => <>(~readerAlive(c)))

\* C34 as claimed: a read task that returns after the engine has gone on to
\* a later connection (a later dial has begun and the state is Connecting or
\* Connected) leaves the state as it is and starts no callback.
C34_OldReaderHarmless ==
    [][\A c \in Conns :
          (/\ readerPc[c] = "change"
           /\ readerPc'[c] = "done"
           /\ dials > c
           /\ isState({Connecting, Connected}))
             => UNCHANGED <<state, cbPending>>]_vars

\* ------------------------------------------------ claims: the lifecycle
\* the frame of task t has been written to a socket
isWritten(t) == \E i \in DOMAIN written : written[i] = t

\* C35 as claimed: a command that SendISCP has accepted (it returned nil,
\* the state being Connected) before Stop is called is written to the socket
\* before doDone closes it. The loop returns from doDone without another
\* select, so the frame has to be written when the loop takes c.done.
C35_AcceptedIsWritten ==
    [][(/\ ~stopReturned
        /\ stopReturned'
        /\ isState({Connected})
        /\ callPc = "done"
        /\ callResult = Nil
        /\ callCheck = Connected)
          => isWritten(callNo)]_vars

\* C36 as claimed: a SendISCP call made by the message handler returns, and
\* the loop goes on with its select, with or without AutoConnect and
\* whatever the send channel holds.
C36_HandlerSendReturns == enginePc # "blocked"

\* the loop goroutines that have been started and have not returned
loopsRunning ==
    (IF enginePc \in {"notstarted", "stopped"} THEN 0 ELSE 1) + loops

\* C37 as claimed: at most one loop runs at any time, a Start on a started
\* client being ignored.
C37_SingleLoop == loopsRunning <= 1

\* C38 as claimed: no Stop call is left waiting on a client without a loop,
\* one that was never started or whose loop has returned.
C38_StopReturns == stopWaiting > 0 => loopsRunning > 0

\* ------------------------------------------------ claims: doSend, facade
\* the caller of task t is in the select of client.Send on the Reply channel
awaited(t) == t = callNo /\ callPc = "await"

invalidArguments(in) ==
    \/ ~registeredName(in.name)
    \/ /\ in.kind = "create"
       /\ \A i \in DOMAIN commands :
             commands[i].Name = in.name
               => \A p \in formatParam(commands[i], in.raw) : p.err # Nil

\* C40: a SendCommand or Query call with an unknown name or an invalid value
\* returns the error of the codec, and apart from the call having returned
\* nothing changes: nothing is queued or written, no Connect is requested
\* (the call is not in client.Connect), state, socket and loop are as before.
C40_CodecErrorOnly ==
    [][(callNo' = callNo + 1 /\ codecOp' \in {"SendCommand", "Query"}
          /\ invalidArguments(codecIn'))
         => /\ callPc' = "done"
            /\ callResult' = codecOut'.err
            /\ callResult' \in {ErrUnknownCommand, ErrInvalidParameter, ErrSyntax}
            /\ UNCHANGED <<send, reply, written, state, conn, lastChange, cbPending,
                           enginePc, stopping, dials, connStatus, readerPc, timers,
                           received, handled>>]_vars

\* a SendCommand with a value that the command rejects has returned the
\* error on a device with AutoConnect that is not connected
C40_Witness ==
    /\ codecOp = "SendCommand"
    /\ codecIn.name = "power"
    /\ codecIn.raw = stringValue("abc")
    /\ cfg.autoConnect
    /\ state = Disconnected
    /\ enginePc = "select"
    /\ callPc = "done"
    /\ callResult = ErrInvalidParameter

=========================================================================
